---- MODULE Spec2Model ----
(***************************************************************************)
(* Model of softfoundry's agent loop (utils/loop.py, Agent.run and its     *)
(* signal handler) and of the coordination state inference                 *)
(* (utils/state.py, get_manager_state and the enumerations it reads).      *)
(*                                                                         *)
(* It also models the inference of member and task states, the status     *)
(* files (utils/status.py), the session store (utils/sessions.py) and the  *)
(* resolution of the session at startup.                                   *)
(*                                                                         *)
(* The specifications share the variables; each keeps the others idle:     *)
(*   Spec           one run of Agent.run with interrupts, faults,          *)
(*                  cancellation                                           *)
(*   SpecState      a poller calls get_manager_state on every content of   *)
(*                  the tasks and team collections within the bounds       *)
(*   SpecClassify   get_programmer_state, get_all_team_members and         *)
(*                  get_task_state on team and task documents              *)
(*   SpecStatus     update_status calls on one status file as time passes  *)
(*   SpecMonitor    the readers of a status file that may be damaged       *)
(*   SpecStatusRace a reader concurrent with the steps of update_status    *)
(*   SpecSession    get_session, save_session and delete_session on one    *)
(*                  identity                                               *)
(*   SpecStartup    the resolution of the session when a process starts    *)
(*   SpecPaths      the session path and the status path of two agent      *)
(*                  identities                                             *)
(*   SpecSessionRace a reader concurrent with the steps of save_session    *)
(*   SpecLive       one run under the fairness of its steps, without       *)
(*                  interrupts                                             *)
(*   SpecFields     parse_status_field and get_assigned_task on the text   *)
(*                  of a document                                          *)
(*   SpecInfer      the four state-inference functions called repeatedly   *)
(*   SpecClear      agents of several projects start, clear_project runs   *)
(*   SpecPrecedence the Status keywords in every order and case            *)
(*   SpecPoll       get_manager_state read by read while documents are     *)
(*                  rewritten                                              *)
(*   SpecRecovery   successive starts of the manager or the reviewer on    *)
(*                  one status file                                        *)
(*   SpecProgrammer the loop of run_programmer on a member document that   *)
(*                  is rewritten                                           *)
(***************************************************************************)
EXTENDS Integers, Sequences, FiniteSets, TLC

\* ------------------------------------------------------------------------
\* Bounds
\* ------------------------------------------------------------------------
\* config.max_iterations is drawn from 0..MaxIterations
MaxIterations == 3
\* number of SIGINT deliveries considered in one run
MaxSignals == 2
\* number of consecutive empty console reads considered
MaxEmptyReads == 2

\* ------------------------------------------------------------------------
\* Small input sets
\* ------------------------------------------------------------------------
\* session ids carried by result events
SessionIds == {"s1", "s2"}
\* descriptions of unhandled faults (str(e))
Faults == {"boom", "timeout"}
\* assistant texts (the classifier is an opaque collaborator)
Texts == {"statement", "question"}
\* get_idle_interval(): None, 0 or a positive number of seconds
IdleChoices ==
  { [none |-> TRUE, secs |-> 0], [none |-> FALSE, secs |-> 0],
    [none |-> FALSE, secs |-> 1] }

VARIABLES
  \* ---- Agent.run ----
  pc,                 \* position of the coroutine in Agent.run
  max_iterations,     \* config.max_iterations
  idle_interval,      \* value returned by get_idle_interval()
  iteration,          \* self._iteration
  shutdown_requested, \* self._shutdown_state["shutdown_requested"]
  query_running,      \* self._shutdown_state["query_running"]
  should_exit,        \* local should_exit
  last_assistant_text,\* self._last_assistant_text
  message,            \* the ResultMessage being processed
  gotResult,          \* the response stream has delivered its result event
  status,             \* the StatusRecord file: status tag and details
  sessionFile,        \* the SessionRecord file
  pendingExc,         \* exception being handled by an except clause of run
  loopExc,            \* exception the handler raised inside the event loop
  outcome,            \* how run / the process ended
  raisedExc,          \* exception that left run, if any
  \* ---- history of the run (observation only) ----
  cause,              \* the path by which the loop stopped
  promptsSubmitted,   \* number of client.query calls completed
  turnsStarted,       \* number of response streams started
  resultsReceived,    \* number of result events received
  sessionSaves,       \* number of save_session calls completed
  sigCount,           \* number of SIGINT delivered
  firstSig,           \* snapshot taken when the first SIGINT arrived
  secondSig,          \* a second SIGINT arrived while run was executing
  faulted,            \* description of the unhandled fault raised, or "none"
  emptyReads,         \* consecutive empty console reads
  lastPrompt,         \* kind of the prompt submitted last
  turnLog,            \* how the next prompt of the current turn was chosen
  \* ---- coordination artifacts ----
  tasksDir,           \* planning/tasks: file name -> document
  teamDir,            \* planning/team: file name -> document
  mgrResult,          \* last value returned by get_manager_state
  progResult,         \* last call of get_programmer_state and its value
  teamResult,         \* last value returned by get_all_team_members
  taskResult,         \* last call of get_task_state and its value
  \* ---- status files and their processes ----
  fs,                 \* the status directory: path -> file
  now,                \* the wall clock, in seconds
  ticks,              \* number of times the clock has advanced
  upd,                \* the process executing update_status
  rd,                 \* the process reading the status file
  updCount,           \* number of update_status calls started
  lastUpdate,         \* the last update_status call that returned
  commits,            \* the records written by the calls that returned
  \* ---- session store and startup ----
  sessStore,          \* the file at the session path of one identity
  sessCall,           \* the last call on the session store and its outcome
  sessLog,            \* the saves and deletes that returned since Init
  boot,               \* a process from its start to its first iteration
  \* ---- paths, documents, project files ----
  pathCall,           \* the last pair of identities mapped to their paths
  fieldCall,          \* the last lookup of a field in a document
  stores,             \* the session and status files of all projects
  saver,              \* the process executing save_session
  poll,               \* a get_manager_state call in progress
  worker              \* an agent function from its launch to its exit

runVars ==
  << pc, max_iterations, idle_interval, iteration, shutdown_requested,
     query_running, should_exit, last_assistant_text, message, gotResult,
     status, sessionFile, pendingExc, loopExc, outcome, raisedExc >>

histVars ==
  << cause, promptsSubmitted, turnsStarted, resultsReceived, sessionSaves,
     sigCount, firstSig, secondSig, faulted, emptyReads, lastPrompt,
     turnLog >>

inferVars == << progResult, teamResult, taskResult >>

statusVars == << fs, now, ticks, upd, rd, updCount, lastUpdate, commits >>

sessionVars == << sessStore, sessCall, sessLog, boot >>

toolVars == << pathCall, fieldCall, stores, saver, poll, worker >>

storeVars == << statusVars, sessionVars, toolVars >>

docVars == << tasksDir, teamDir, mgrResult, inferVars, storeVars >>

vars == << runVars, histVars, docVars >>

\* ------------------------------------------------------------------------
\* Status hooks of Agent (each is one update_status call)
\* ------------------------------------------------------------------------
\* state of the status file after Agent.__init__
StartingStatus ==
  [status |-> "starting", details |-> <<"Initializing agent", "">>]

on_shutdown(graceful) ==
  [status |-> "exited:terminated",
   details |-> << IF graceful THEN "User requested shutdown"
                              ELSE "Immediate exit", "" >>]

on_error(error) ==
  [status |-> "exited:error", details |-> <<"Error", error>>]

on_complete ==
  [status |-> "exited:success", details |-> <<"Completed successfully", "">>]

on_max_iterations(n) ==
  [status |-> "exited:terminated",
   details |-> <<"Reached max iterations", ToString(n)>>]

\* SessionManager.create_session_info + save_session: the file is rewritten
\* with the record of the result event
save_session(session_id) == [exists |-> TRUE, session_id |-> session_id]

\* is_agent_exited's test on the status tag: status.startswith("exited:")
IsTerminal(st) ==
  st.status \in {"exited:success", "exited:terminated", "exited:error"}

\* ------------------------------------------------------------------------
\* Positions of the coroutine
\* ------------------------------------------------------------------------
\* positions inside the outer try block of run (lines 503-588)
InTry ==
  { "query_init", "loop_head", "stream", "save_session", "check_complete",
    "after_stream", "classify", "read_input", "query_user", "sleep",
    "query_cont", "after_loop" }

\* positions inside the inner try/finally around the response stream
StreamPcs == { "stream", "save_session", "check_complete" }

\* positions at which the coroutine is suspended in an await, so that the
\* main thread is executing the event loop
AwaitPcs == { "query_init", "stream", "query_user", "sleep", "query_cont" }

\* positions at which a collaborator call can raise an unhandled fault
FaultPcs ==
  { "query_init", "stream", "save_session", "check_complete", "classify",
    "read_input", "query_user", "query_cont" }

NoExc == [type |-> "none", desc |-> ""]

\* no call of a state-inference function has returned yet
NoCall == [called |-> FALSE, arg |-> "", value |-> "none"]

NoMembers == [called |-> FALSE, value |-> {}]

InferIdle ==
  /\ progResult = NoCall
  /\ teamResult = NoMembers
  /\ taskResult = NoCall

\* no process is using the status directory
StatusIdle ==
  /\ fs = << >>
  /\ now = 0
  /\ ticks = 0
  /\ upd = << >>
  /\ rd = << >>
  /\ updCount = 0
  /\ lastUpdate = << >>
  /\ commits = << >>

\* no process is using the session store
SessionIdle ==
  /\ sessStore = << >>
  /\ sessCall = << >>
  /\ sessLog = << >>
  /\ boot = << >>

\* no path is computed, no document read, no project cleared, no poll and
\* no agent function in progress
ToolsIdle ==
  /\ pathCall = << >>
  /\ fieldCall = << >>
  /\ stores = << >>
  /\ saver = << >>
  /\ poll = << >>
  /\ worker = << >>

StoresIdle == StatusIdle /\ SessionIdle /\ ToolsIdle

NoSig ==
  [seen |-> FALSE, inflight |-> FALSE, at |-> "", iteration |-> 0,
   prompts |-> 0, results |-> 0, saves |-> 0, turns |-> 0]

cfgVars == << max_iterations, idle_interval >>

\* texts typed on the console, after strip(); "" also stands for end of input
ConsoleInputs == { "", "yes", "use the other branch" }

\* no next prompt has been chosen in the current turn: the verdict of
\* needs_user_input, the last console read, whether a read has returned an
\* odd number of times, whether the idle sleep ended, and the prompt sent
NoTurn ==
  [verdict |-> "none", user_input |-> "", odd |-> FALSE, slept |-> FALSE,
   sent |-> "none"]

\* ------------------------------------------------------------------------
\* Init: the agent has been constructed (status "starting"), run not started
\* ------------------------------------------------------------------------
RunInit ==
  /\ pc = "setup"
  /\ max_iterations \in 0..MaxIterations
  /\ idle_interval \in IdleChoices
  /\ iteration = 0
  /\ shutdown_requested = FALSE
  /\ query_running = FALSE
  /\ should_exit = FALSE
  /\ last_assistant_text = ""
  /\ message = [session_id |-> "", complete |-> FALSE]
  /\ gotResult = FALSE
  /\ status = StartingStatus
  /\ sessionFile \in { [exists |-> FALSE, session_id |-> ""],
                       [exists |-> TRUE, session_id |-> "s0"] }
  /\ pendingExc = NoExc
  /\ loopExc = "none"
  /\ outcome = "running"
  /\ raisedExc = "none"
  /\ cause = "none"
  /\ promptsSubmitted = 0
  /\ turnsStarted = 0
  /\ resultsReceived = 0
  /\ sessionSaves = 0
  /\ sigCount = 0
  /\ firstSig = NoSig
  /\ secondSig = FALSE
  /\ faulted = "none"
  /\ emptyReads = 0
  /\ lastPrompt = "none"
  /\ turnLog = NoTurn

\* ------------------------------------------------------------------------
\* Exceptions
\* ------------------------------------------------------------------------
\* An exception of type exc (description desc) is raised in the coroutine at
\* the current position. Inside the outer try it reaches the matching except
\* clause of run, leaving the response stream through its finally; outside
\* (before the try, or inside an except clause) it leaves run.
Throw(exc, desc) ==
  IF pc \in InTry
  THEN /\ pc' = CASE exc = "GracefulExit" -> "exc_graceful"
                  [] exc = "ImmediateExit" -> "exc_immediate"
                  [] OTHER -> "exc_error"
       /\ pendingExc' = [type |-> exc, desc |-> desc]
       /\ query_running' = IF pc \in StreamPcs THEN FALSE ELSE query_running
       /\ cause' = CASE exc = "GracefulExit" -> "shutdown"
                     [] exc = "ImmediateExit" -> "immediate"
                     [] OTHER -> "error"
       /\ UNCHANGED << outcome, raisedExc >>
  ELSE /\ pc' = "done"
       /\ outcome' = "raised"
       /\ raisedExc' = exc
       /\ cause' = "uncaught"
       /\ UNCHANGED << pendingExc, query_running >>

\* The task is cancelled while suspended in an await: CancelledError is
\* thrown at the await. Only the idle sleep catches it (break); elsewhere it
\* leaves run (it is not an Exception), through the stream's finally.
Cancel ==
  IF pc = "sleep"
  THEN /\ pc' = "after_loop"
       /\ cause' = "cancelled"
       /\ UNCHANGED << pendingExc, query_running, outcome, raisedExc >>
  ELSE /\ pc' = "done"
       /\ outcome' = "raised"
       /\ raisedExc' = "CancelledError"
       /\ cause' = "cancelled"
       /\ query_running' = IF pc \in StreamPcs THEN FALSE ELSE query_running
       /\ UNCHANGED pendingExc

\* ------------------------------------------------------------------------
\* Agent.run, one action per step of the coroutine
\* ------------------------------------------------------------------------
\* lines 492-503: handlers installed, options built, the try block entered
Setup ==
  /\ pc = "setup"
  /\ pc' = "query_init"
  /\ UNCHANGED << cfgVars, iteration, shutdown_requested, query_running,
                  should_exit, last_assistant_text, message, gotResult,
                  status, sessionFile, pendingExc, loopExc, outcome,
                  raisedExc, histVars, docVars >>

\* line 506: await client.query(self.get_initial_prompt())
QueryInit ==
  /\ pc = "query_init"
  /\ pc' = "loop_head"
  /\ promptsSubmitted' = promptsSubmitted + 1
  /\ lastPrompt' = "initial"
  /\ UNCHANGED << cfgVars, iteration, shutdown_requested, query_running,
                  should_exit, last_assistant_text, message, gotResult,
                  status, sessionFile, pendingExc, loopExc, outcome,
                  raisedExc, cause, turnsStarted, resultsReceived,
                  sessionSaves, sigCount, firstSig, secondSig, faulted,
                  emptyReads, turnLog,
                  docVars >>

\* the while test of line 508 off by one (iteration <= max_iterations)
LoopTest_Inclusive(i, n) == i <= n

\* line 508: while self._iteration < self.config.max_iterations
LoopTest(i, n) == i < n

\* lines 508-519: the while test, the increment, the shutdown check before
\* processing, and the start of the response stream
LoopHead ==
  /\ pc = "loop_head"
  /\ IF LoopTest(iteration, max_iterations)
     THEN /\ iteration' = iteration + 1
          /\ IF shutdown_requested
             THEN /\ status' = on_shutdown(TRUE)
                  /\ pc' = "after_loop"
                  /\ cause' = "shutdown"
                  /\ UNCHANGED << last_assistant_text, query_running,
                                  should_exit, turnsStarted >>
             ELSE /\ last_assistant_text' = ""
                  /\ query_running' = TRUE
                  /\ should_exit' = FALSE
                  /\ pc' = "stream"
                  /\ turnsStarted' = turnsStarted + 1
                  /\ UNCHANGED << status, cause >>
     ELSE /\ pc' = "after_loop"
          /\ cause' = "max"
          /\ UNCHANGED << iteration, status, last_assistant_text,
                          query_running, should_exit, turnsStarted >>
  /\ turnLog' = NoTurn
  /\ UNCHANGED << cfgVars, shutdown_requested, message, gotResult,
                  sessionFile, pendingExc, loopExc, outcome, raisedExc,
                  promptsSubmitted, resultsReceived, sessionSaves, sigCount,
                  firstSig, secondSig, faulted, emptyReads, lastPrompt,
                  docVars >>

\* lines 522-528: an AssistantMessage arrives on the stream
RecvAssistant(text) ==
  /\ pc = "stream"
  /\ ~gotResult
  /\ last_assistant_text' = text
  /\ UNCHANGED << pc, cfgVars, iteration, shutdown_requested, query_running,
                  should_exit, message, gotResult, status, sessionFile,
                  pendingExc, loopExc, outcome, raisedExc, histVars,
                  docVars >>

\* lines 522, 530: the ResultMessage arrives on the stream
RecvResult(sid, complete) ==
  /\ pc = "stream"
  /\ ~gotResult
  /\ message' = [session_id |-> sid, complete |-> complete]
  /\ resultsReceived' = resultsReceived + 1
  /\ pc' = "save_session"
  /\ UNCHANGED << cfgVars, iteration, shutdown_requested, query_running,
                  should_exit, last_assistant_text, gotResult, status,
                  sessionFile, pendingExc, loopExc, outcome, raisedExc,
                  cause, promptsSubmitted, turnsStarted, sessionSaves,
                  sigCount, firstSig, secondSig, faulted, emptyReads,
                  lastPrompt, turnLog,
                  docVars >>

\* SaveSession that leaves the session file as it was
SaveSession_Skipped ==
  /\ pc = "save_session"
  /\ sessionSaves' = sessionSaves + 1
  /\ pc' = "check_complete"
  /\ UNCHANGED << cfgVars, iteration, shutdown_requested, query_running,
                  should_exit, last_assistant_text, message, gotResult,
                  status, sessionFile, pendingExc, loopExc, outcome,
                  raisedExc, cause, promptsSubmitted, turnsStarted,
                  resultsReceived, sigCount, firstSig, secondSig, faulted,
                  emptyReads, lastPrompt, turnLog,
                  docVars >>

\* lines 532-536: self._save_session(message.session_id, ...)
SaveSession ==
  /\ pc = "save_session"
  /\ sessionFile' = save_session(message.session_id)
  /\ sessionSaves' = sessionSaves + 1
  /\ pc' = "check_complete"
  /\ UNCHANGED << cfgVars, iteration, shutdown_requested, query_running,
                  should_exit, last_assistant_text, message, gotResult,
                  status, pendingExc, loopExc, outcome, raisedExc, cause,
                  promptsSubmitted, turnsStarted, resultsReceived, sigCount,
                  firstSig, secondSig, faulted, emptyReads, lastPrompt,
                  turnLog,
                  docVars >>

\* CheckComplete with an on_result that writes the status after every turn
CheckComplete_AlwaysUpdates ==
  /\ pc = "check_complete"
  /\ IF message.complete
     THEN /\ status' = on_complete
          /\ should_exit' = TRUE
     ELSE /\ status' = [status |-> "working", details |-> <<"Turn done", "">>]
          /\ UNCHANGED should_exit
  /\ gotResult' = TRUE
  /\ pc' = "stream"
  /\ UNCHANGED << cfgVars, iteration, shutdown_requested, query_running,
                  last_assistant_text, message, sessionFile, pendingExc,
                  loopExc, outcome, raisedExc, histVars, docVars >>

\* lines 539-544: on_result (default: nothing), is_complete, on_complete
CheckComplete ==
  /\ pc = "check_complete"
  /\ IF message.complete
     THEN /\ status' = on_complete
          /\ should_exit' = TRUE
     ELSE UNCHANGED << status, should_exit >>
  /\ gotResult' = TRUE
  /\ pc' = "stream"
  /\ UNCHANGED << cfgVars, iteration, shutdown_requested, query_running,
                  last_assistant_text, message, sessionFile, pendingExc,
                  loopExc, outcome, raisedExc, histVars, docVars >>

\* StreamEnd without the finally clause of lines 545-546
StreamEnd_KeepsRunning ==
  /\ pc = "stream"
  /\ gotResult
  /\ gotResult' = FALSE
  /\ pc' = "after_stream"
  /\ UNCHANGED << cfgVars, iteration, shutdown_requested, query_running,
                  should_exit, last_assistant_text, message, status,
                  sessionFile, pendingExc, loopExc, outcome, raisedExc,
                  histVars, docVars >>

\* lines 522, 545-546: the stream ends after its result event; finally
StreamEnd ==
  /\ pc = "stream"
  /\ gotResult
  /\ gotResult' = FALSE
  /\ query_running' = FALSE
  /\ pc' = "after_stream"
  /\ UNCHANGED << cfgVars, iteration, shutdown_requested, should_exit,
                  last_assistant_text, message, status, sessionFile,
                  pendingExc, loopExc, outcome, raisedExc, histVars,
                  docVars >>

\* AfterStream with the shutdown check of line 552 before the return of
\* line 548
AfterStream_ShutdownFirst ==
  /\ pc = "after_stream"
  /\ IF shutdown_requested
     THEN /\ status' = on_shutdown(TRUE)
          /\ pc' = "after_loop"
          /\ cause' = "shutdown"
          /\ UNCHANGED outcome
     ELSE IF should_exit
     THEN /\ pc' = "done"
          /\ outcome' = "returned"
          /\ cause' = "success"
          /\ UNCHANGED status
     ELSE /\ pc' = "classify"
          /\ UNCHANGED << status, outcome, cause >>
  /\ UNCHANGED << cfgVars, iteration, shutdown_requested, query_running,
                  should_exit, last_assistant_text, message, gotResult,
                  sessionFile, pendingExc, loopExc, raisedExc,
                  promptsSubmitted, turnsStarted, resultsReceived,
                  sessionSaves, sigCount, firstSig, secondSig, faulted,
                  emptyReads, lastPrompt, turnLog,
                  docVars >>

\* lines 548-554: return on completion, else the shutdown check after
\* processing
AfterStream ==
  /\ pc = "after_stream"
  /\ IF should_exit
     THEN /\ pc' = "done"
          /\ outcome' = "returned"
          /\ cause' = "success"
          /\ UNCHANGED status
     ELSE IF shutdown_requested
     THEN /\ status' = on_shutdown(TRUE)
          /\ pc' = "after_loop"
          /\ cause' = "shutdown"
          /\ UNCHANGED outcome
     ELSE /\ pc' = "classify"
          /\ UNCHANGED << status, outcome, cause >>
  /\ UNCHANGED << cfgVars, iteration, shutdown_requested, query_running,
                  should_exit, last_assistant_text, message, gotResult,
                  sessionFile, pendingExc, loopExc, raisedExc,
                  promptsSubmitted, turnsStarted, resultsReceived,
                  sessionSaves, sigCount, firstSig, secondSig, faulted,
                  emptyReads, lastPrompt, turnLog,
                  docVars >>

\* utils/llm.py needs_user_input: empty text is never a question; otherwise
\* the external classifier answers (answer is its YES/NO)
needs_user_input(text, answer) ==
  IF text = "" THEN FALSE ELSE answer

\* lines 557, 571-574: classify the last assistant text and pick the branch
Classify(answer) ==
  /\ pc = "classify"
  /\ IF needs_user_input(last_assistant_text, answer)
     THEN pc' = "read_input"
     ELSE IF ~idle_interval.none /\ idle_interval.secs > 0
     THEN pc' = "sleep"
     ELSE pc' = "query_cont"
  /\ emptyReads' = 0
  /\ turnLog' = [turnLog EXCEPT !.verdict =
                   IF needs_user_input(last_assistant_text, answer)
                   THEN "input" ELSE "continue"]
  /\ UNCHANGED << cfgVars, iteration, shutdown_requested, query_running,
                  should_exit, last_assistant_text, message, gotResult,
                  status, sessionFile, pendingExc, loopExc, outcome,
                  raisedExc, cause, promptsSubmitted, turnsStarted,
                  resultsReceived, sessionSaves, sigCount, firstSig,
                  secondSig, faulted, lastPrompt, docVars >>

\* ReadInput without the test of line 564: an empty read is submitted too
ReadInput_AcceptsEmpty(user_input) ==
  /\ pc = "read_input"
  /\ pc' = "query_user"
  /\ turnLog' = [turnLog EXCEPT !.user_input = user_input,
                                !.odd = ~turnLog.odd]
  /\ UNCHANGED << cfgVars, iteration, shutdown_requested, query_running,
                  should_exit, last_assistant_text, message, gotResult,
                  status, sessionFile, pendingExc, loopExc, outcome,
                  raisedExc, cause, promptsSubmitted, turnsStarted,
                  resultsReceived, sessionSaves, sigCount, firstSig,
                  secondSig, faulted, emptyReads, lastPrompt, docVars >>

\* lines 562-570 and input.py lines 16-25: read_multiline_input().strip()
\* returns user_input; an empty read (also at end of input, where input()
\* raises EOFError and "" is returned) is repeated, a non-empty one becomes
\* the next prompt. emptyReads counts up to MaxEmptyReads.
ReadInput(user_input) ==
  /\ pc = "read_input"
  /\ IF user_input # ""
     THEN /\ pc' = "query_user"
          /\ UNCHANGED emptyReads
     ELSE /\ emptyReads' = IF emptyReads < MaxEmptyReads
                           THEN emptyReads + 1 ELSE emptyReads
          /\ UNCHANGED pc
  /\ turnLog' = [turnLog EXCEPT !.user_input = user_input,
                                !.odd = ~turnLog.odd]
  /\ UNCHANGED << cfgVars, iteration, shutdown_requested, query_running,
                  should_exit, last_assistant_text, message, gotResult,
                  status, sessionFile, pendingExc, loopExc, outcome,
                  raisedExc, cause, promptsSubmitted, turnsStarted,
                  resultsReceived, sessionSaves, sigCount, firstSig,
                  secondSig, faulted, lastPrompt, docVars >>

\* line 565: await client.query(user_input)
QueryUser ==
  /\ pc = "query_user"
  /\ pc' = "loop_head"
  /\ promptsSubmitted' = promptsSubmitted + 1
  /\ lastPrompt' = "user"
  /\ turnLog' = [turnLog EXCEPT !.sent = turnLog.user_input]
  /\ UNCHANGED << cfgVars, iteration, shutdown_requested, query_running,
                  should_exit, last_assistant_text, message, gotResult,
                  status, sessionFile, pendingExc, loopExc, outcome,
                  raisedExc, cause, turnsStarted, resultsReceived,
                  sessionSaves, sigCount, firstSig, secondSig, faulted,
                  emptyReads, docVars >>

\* line 579: await asyncio.sleep(idle_interval) returns
SleepDone ==
  /\ pc = "sleep"
  /\ pc' = "query_cont"
  /\ turnLog' = [turnLog EXCEPT !.slept = TRUE]
  /\ UNCHANGED << cfgVars, iteration, shutdown_requested, query_running,
                  should_exit, last_assistant_text, message, gotResult,
                  status, sessionFile, pendingExc, loopExc, outcome,
                  raisedExc, cause, promptsSubmitted, turnsStarted,
                  resultsReceived, sessionSaves, sigCount, firstSig,
                  secondSig, faulted, emptyReads, lastPrompt, docVars >>

\* lines 580-581: the sleep is cancelled by the task's owner (task.cancel());
\* CancelledError is caught and the loop is left by break
SleepCancelled ==
  /\ pc = "sleep"
  /\ Cancel
  /\ UNCHANGED << cfgVars, iteration, shutdown_requested, should_exit,
                  last_assistant_text, message, gotResult, status,
                  sessionFile, loopExc, promptsSubmitted, turnsStarted,
                  resultsReceived, sessionSaves, sigCount, firstSig,
                  secondSig, faulted, emptyReads, lastPrompt, turnLog,
                  docVars >>

\* line 584: await client.query(self.get_continuation_prompt())
QueryCont ==
  /\ pc = "query_cont"
  /\ pc' = "loop_head"
  /\ promptsSubmitted' = promptsSubmitted + 1
  /\ lastPrompt' = "continuation"
  /\ turnLog' = [turnLog EXCEPT !.sent = "continuation"]
  /\ UNCHANGED << cfgVars, iteration, shutdown_requested, query_running,
                  should_exit, last_assistant_text, message, gotResult,
                  status, sessionFile, pendingExc, loopExc, outcome,
                  raisedExc, cause, turnsStarted, resultsReceived,
                  sessionSaves, sigCount, firstSig, secondSig, faulted,
                  emptyReads, docVars >>

\* AfterLoop with the test of line 587 off by one (iteration > max_iterations)
AfterLoop_StrictTest ==
  /\ pc = "after_loop"
  /\ status' = IF iteration > max_iterations
               THEN on_max_iterations(max_iterations)
               ELSE status
  /\ pc' = "done"
  /\ outcome' = "returned"
  /\ UNCHANGED << cfgVars, iteration, shutdown_requested, query_running,
                  should_exit, last_assistant_text, message, gotResult,
                  sessionFile, pendingExc, loopExc, raisedExc, histVars,
                  docVars >>

\* lines 586-588: after the loop (while test failed, or break), then run
\* returns
AfterLoop ==
  /\ pc = "after_loop"
  /\ status' = IF iteration >= max_iterations
               THEN on_max_iterations(max_iterations)
               ELSE status
  /\ pc' = "done"
  /\ outcome' = "returned"
  /\ UNCHANGED << cfgVars, iteration, shutdown_requested, query_running,
                  should_exit, last_assistant_text, message, gotResult,
                  sessionFile, pendingExc, loopExc, raisedExc, histVars,
                  docVars >>

\* lines 590-591: except GracefulExit: on_shutdown(graceful=True); run returns
ExcGraceful ==
  /\ pc = "exc_graceful"
  /\ status' = on_shutdown(TRUE)
  /\ pc' = "done"
  /\ outcome' = "returned"
  /\ UNCHANGED << cfgVars, iteration, shutdown_requested, query_running,
                  should_exit, last_assistant_text, message, gotResult,
                  sessionFile, pendingExc, loopExc, raisedExc, histVars,
                  docVars >>

\* ExcImmediate without the sys.exit(1) of line 594: run returns normally
ExcImmediate_NoExit ==
  /\ pc = "exc_immediate"
  /\ status' = on_shutdown(FALSE)
  /\ pc' = "done"
  /\ outcome' = "returned"
  /\ UNCHANGED << cfgVars, iteration, shutdown_requested, query_running,
                  should_exit, last_assistant_text, message, gotResult,
                  sessionFile, pendingExc, loopExc, raisedExc, histVars,
                  docVars >>

\* lines 592-594: except ImmediateExit: on_shutdown(graceful=False);
\* sys.exit(1)
ExcImmediate ==
  /\ pc = "exc_immediate"
  /\ status' = on_shutdown(FALSE)
  /\ pc' = "done"
  /\ outcome' = "sys_exit"
  /\ raisedExc' = "SystemExit"
  /\ UNCHANGED << cfgVars, iteration, shutdown_requested, query_running,
                  should_exit, last_assistant_text, message, gotResult,
                  sessionFile, pendingExc, loopExc, histVars, docVars >>

\* ExcError without the raise of line 597: the fault is swallowed
ExcError_Swallowed ==
  /\ pc = "exc_error"
  /\ status' = on_error(pendingExc.desc)
  /\ pc' = "done"
  /\ outcome' = "returned"
  /\ UNCHANGED << cfgVars, iteration, shutdown_requested, query_running,
                  should_exit, last_assistant_text, message, gotResult,
                  sessionFile, pendingExc, loopExc, raisedExc, histVars,
                  docVars >>

\* lines 595-597: except Exception as e: on_error(e); raise
ExcError ==
  /\ pc = "exc_error"
  /\ status' = on_error(pendingExc.desc)
  /\ pc' = "done"
  /\ outcome' = "raised"
  /\ raisedExc' = "Fault"
  /\ UNCHANGED << cfgVars, iteration, shutdown_requested, query_running,
                  should_exit, last_assistant_text, message, gotResult,
                  sessionFile, pendingExc, loopExc, histVars, docVars >>

\* a collaborator (engine, session store, completion predicate, classifier,
\* console) raises an unhandled fault e inside the try block
Fault(e) ==
  /\ pc \in FaultPcs
  /\ Throw("Fault", e)
  /\ faulted' = e
  /\ UNCHANGED << cfgVars, iteration, shutdown_requested, should_exit,
                  last_assistant_text, message, gotResult, status,
                  sessionFile, loopExc, promptsSubmitted, turnsStarted,
                  resultsReceived, sessionSaves, sigCount, firstSig,
                  secondSig, emptyReads, lastPrompt, turnLog,
                  docVars >>

\* handler without the query_running test of line 281: the first SIGINT
\* raises GracefulExit also while a turn is in flight
handler_IgnoresRunning(requested, running) ==
  IF requested
  THEN [shutdown_requested |-> requested, raises |-> "ImmediateExit"]
  ELSE [shutdown_requested |-> TRUE, raises |-> "GracefulExit"]

\* lines 275-287: the SIGINT handler, as a function of the two flags: the
\* new value of shutdown_requested and the exception it raises, if any
handler(requested, running) ==
  IF requested
  THEN [shutdown_requested |-> requested, raises |-> "ImmediateExit"]
  ELSE [shutdown_requested |-> TRUE,
        raises |-> IF running THEN "none" ELSE "GracefulExit"]

\* A SIGINT is delivered while run is executing (handler installed at line
\* 289). Python runs the handler in the main thread, so what it raises
\* surfaces where the main thread is executing:
\*   "task": inside the coroutine, at its current position;
\*   "loop": inside the event loop, while the coroutine is suspended in an
\*           await. The exception then leaves the event loop, whose runner
\*           cancels the task and re-raises the exception to the caller once
\*           the task has finished.
Signal(delivery) ==
  /\ pc # "done"
  /\ sigCount < MaxSignals
  /\ delivery = "loop" => pc \in AwaitPcs
  /\ LET h == handler(shutdown_requested, query_running) IN
       /\ shutdown_requested' = h.shutdown_requested
       /\ IF h.raises = "none"
          THEN /\ delivery = "task"
               /\ UNCHANGED << pc, pendingExc, query_running, outcome,
                               raisedExc, cause, loopExc >>
          ELSE IF delivery = "task"
          THEN /\ Throw(h.raises, "")
               /\ UNCHANGED loopExc
          ELSE /\ loopExc' = h.raises
               /\ Cancel
  /\ sigCount' = sigCount + 1
  /\ firstSig' = IF firstSig.seen THEN firstSig
                 ELSE [seen |-> TRUE, inflight |-> query_running, at |-> pc,
                       iteration |-> iteration,
                       prompts |-> promptsSubmitted,
                       results |-> resultsReceived, saves |-> sessionSaves,
                       turns |-> turnsStarted]
  /\ secondSig' = (secondSig \/ firstSig.seen)
  /\ UNCHANGED << cfgVars, iteration, should_exit, last_assistant_text,
                  message, gotResult, status, sessionFile, promptsSubmitted,
                  turnsStarted, resultsReceived, sessionSaves, faulted,
                  emptyReads, lastPrompt, turnLog,
                  docVars >>

\* exit code of the process that awaited run: 0 when run returned and nothing
\* was raised in the event loop, 1 for sys.exit(1) and for an exception that
\* reaches the top level
ExitCode ==
  IF outcome = "returned" /\ loopExc = "none" THEN 0 ELSE 1

\* ------------------------------------------------------------------------
\* Specification of one run
\* ------------------------------------------------------------------------

Init ==
  /\ RunInit
  /\ tasksDir = [exists |-> FALSE, files |-> << >>]
  /\ teamDir = [exists |-> FALSE, files |-> << >>]
  /\ mgrResult = "none"
  /\ InferIdle
  /\ StoresIdle

Next ==
  \/ Setup
  \/ QueryInit
  \/ LoopHead
  \/ \E text \in Texts : RecvAssistant(text)
  \/ \E sid \in SessionIds, complete \in BOOLEAN : RecvResult(sid, complete)
  \/ SaveSession
  \/ CheckComplete
  \/ StreamEnd
  \/ AfterStream
  \/ \E answer \in BOOLEAN : Classify(answer)
  \/ \E user_input \in ConsoleInputs : ReadInput(user_input)
  \/ QueryUser
  \/ SleepDone
  \/ SleepCancelled
  \/ QueryCont
  \/ AfterLoop
  \/ ExcGraceful
  \/ ExcImmediate
  \/ ExcError
  \/ \E e \in Faults : Fault(e)
  \/ \E delivery \in {"task", "loop"} : Signal(delivery)

Spec == Init /\ [][Next]_vars

\* ------------------------------------------------------------------------
\* Coordination state inference (utils/state.py)
\* ------------------------------------------------------------------------
\* number of task documents besides the template
MaxTasks == 2

FileNames ==
  << "task-001.md", "task-002.md", "task-003.md", "task-004.md" >>
TaskNames == { FileNames[i] : i \in 1..MaxTasks } \cup { "Template.md" }
MemberNames == { "alice-chen.md", "bob-smith.md", "TEMPLATE.md" }

\* str.lower() on the file names in use
LowerName(name) ==
  IF name \in { "Template.md", "TEMPLATE.md" } THEN "template.md" ELSE name

\* Texts are sequences of characters.
UpperCase ==
  << "A", "B", "C", "D", "E", "F", "G", "H", "I", "J", "K", "L", "M",
     "N", "O", "P", "Q", "R", "S", "T", "U", "V", "W", "X", "Y", "Z" >>
LowerCase ==
  << "a", "b", "c", "d", "e", "f", "g", "h", "i", "j", "k", "l", "m",
     "n", "o", "p", "q", "r", "s", "t", "u", "v", "w", "x", "y", "z" >>

\* str.lower()
lower(s) ==
  [ i \in 1..Len(s) |->
      IF \E k \in 1..26 : UpperCase[k] = s[i]
      THEN LowerCase[CHOOSE k \in 1..26 : UpperCase[k] = s[i]]
      ELSE s[i] ]

\* Python's "sub in s" on strings
Contains(s, sub) ==
  \E i \in 1..(Len(s) - Len(sub) + 1) : SubSeq(s, i, i + Len(sub) - 1) = sub

kwCompleted == << "c", "o", "m", "p", "l", "e", "t", "e", "d" >>
kwInProgressU == << "i", "n", "_", "p", "r", "o", "g", "r", "e", "s", "s" >>
kwInProgressS == << "i", "n", " ", "p", "r", "o", "g", "r", "e", "s", "s" >>
kwWorking == << "w", "o", "r", "k", "i", "n", "g" >>
kwAssigned == << "a", "s", "s", "i", "g", "n", "e", "d" >>
kwAvailable == << "a", "v", "a", "i", "l", "a", "b", "l", "e" >>

\* Status values written into task documents
TaskStatusTexts ==
  { << "C", "O", "M", "P", "L", "E", "T", "E", "D" >>,
    << "I", "n", " ", "P", "r", "o", "g", "r", "e", "s", "s" >>,
    << "p", "e", "n", "d", "i", "n", "g" >>,
    << "{", "s", "t", "a", "t", "u", "s", "}" >> }

\* Status values written into team-member documents
MemberStatusTexts ==
  { << "W", "O", "R", "K", "I", "N", "G" >>,
    << "A", "s", "s", "i", "g", "n", "e", "d" >>,
    << "a", "v", "a", "i", "l", "a", "b", "l", "e" >>,
    << "i", "d", "l", "e" >> }

\* A file of a planning directory: absent; present but unreadable (read_text
\* raises OSError); or a document, of which the model keeps what the Status
\* pattern of parse_status_field matches (hasStatus: the heading and a value
\* line are there; statusText: the value line, stripped).
AbsentFile ==
  [present |-> FALSE, readable |-> FALSE, hasStatus |-> FALSE,
   statusText |-> << >>]

Files(texts) ==
  { AbsentFile,
    [present |-> TRUE, readable |-> FALSE, hasStatus |-> FALSE,
     statusText |-> << >>],
    [present |-> TRUE, readable |-> TRUE, hasStatus |-> FALSE,
     statusText |-> << >>] }
  \cup { [present |-> TRUE, readable |-> TRUE, hasStatus |-> TRUE,
          statusText |-> t] : t \in texts }

\* the template document of a collection: an unfilled {status} placeholder
TemplateFiles ==
  { AbsentFile,
    [present |-> TRUE, readable |-> TRUE, hasStatus |-> TRUE,
     statusText |-> << "{", "s", "t", "a", "t", "u", "s", "}" >>] }

\* a directory that does not exist holds no file
Dirs(names, texts) ==
  { [exists |-> FALSE, files |-> [n \in names |-> AbsentFile]] }
  \cup
  { [exists |-> TRUE,
     files |-> [n \in names |->
                  IF LowerName(n) = "template.md" THEN tf ELSE g[n]]] :
      tf \in TemplateFiles,
      g \in [{ n \in names : LowerName(n) # "template.md" } -> Files(texts)] }

None == [none |-> TRUE, value |-> << >>]

\* lines 51-78: the Status field of a document; a brace-wrapped value is an
\* unfilled placeholder
parse_status_field(doc) ==
  IF doc.hasStatus
  THEN LET value == doc.statusText IN
         IF Len(value) > 0 /\ value[1] = "{" /\ value[Len(value)] = "}"
         THEN None
         ELSE [none |-> FALSE, value |-> value]
  ELSE None

\* get_task_state comparing the Status value without lower()
get_task_state_CaseSensitive(dir, task_filename) ==
  LET task_file == dir.files[task_filename] IN
    IF ~task_file.present THEN "PENDING"
    ELSE IF ~task_file.readable THEN "PENDING"
    ELSE LET field == parse_status_field(task_file) IN
      IF field.none THEN "PENDING"
      ELSE IF Contains(field.value, kwCompleted) THEN "COMPLETED"
      ELSE IF Contains(field.value, kwInProgressU)
              \/ Contains(field.value, kwInProgressS) THEN "IN_PROGRESS"
      ELSE "PENDING"

\* lines 157-187
get_task_state(dir, task_filename) ==
  LET task_file == dir.files[task_filename] IN
    IF ~task_file.present THEN "PENDING"
    ELSE IF ~task_file.readable THEN "PENDING"
    ELSE LET field == parse_status_field(task_file) IN
      IF field.none THEN "PENDING"
      ELSE LET status_lower == lower(field.value) IN
        IF Contains(status_lower, kwCompleted) THEN "COMPLETED"
        ELSE IF Contains(status_lower, kwInProgressU)
                \/ Contains(status_lower, kwInProgressS) THEN "IN_PROGRESS"
        ELSE "PENDING"

\* tasks_dir.glob("*.md") / team_dir.glob("*.md")
Glob(dir) == { n \in DOMAIN dir.files : dir.files[n].present }

\* lines 190-211: (filename, state) of every task document but the template
get_all_tasks(dir) ==
  IF ~dir.exists THEN {}
  ELSE { << n, get_task_state(dir, n) >> :
           n \in { m \in Glob(dir) : LowerName(m) # "template.md" } }

\* lines 238-248: the classification of one member document
member_state(doc) ==
  LET field == parse_status_field(doc) IN
    IF field.none THEN "NOT_REGISTERED"
    ELSE IF Contains(lower(field.value), kwWorking) THEN "WORKING"
    ELSE IF Contains(lower(field.value), kwAssigned) THEN "ASSIGNED"
    ELSE IF Contains(lower(field.value), kwAvailable) THEN "AVAILABLE"
    ELSE "AVAILABLE"

\* lines 214-252: (filename, state) of every readable member document but
\* the template
get_all_team_members(dir) ==
  IF ~dir.exists THEN {}
  ELSE { << n, member_state(dir.files[n]) >> :
           n \in { m \in Glob(dir) : /\ LowerName(m) # "template.md"
                                     /\ dir.files[m].readable } }

\* get_available_programmers that also counts ASSIGNED members as available
get_available_programmers_Assigned(dir) ==
  { m[1] : m \in { x \in get_all_team_members(dir) :
                     x[2] \in {"AVAILABLE", "ASSIGNED"} } }

\* lines 255-265
get_available_programmers(dir) ==
  { m[1] : m \in { x \in get_all_team_members(dir) : x[2] = "AVAILABLE" } }

\* get_manager_state with any() in place of all() at line 297
get_manager_state_Any(tdir, mdir) ==
  LET tasks == get_all_tasks(tdir) IN
    IF tasks = {} THEN "INITIAL"
    ELSE IF \E t \in tasks : t[2] = "COMPLETED" THEN "COMPLETED"
    ELSE LET pending_tasks == { t[1] : t \in { x \in tasks : x[2] = "PENDING" } }
             available_programmers == get_available_programmers(mdir)
         IN IF pending_tasks # {} /\ available_programmers # {}
            THEN "ASSIGNING"
            ELSE "MONITORING"

\* lines 281-313
get_manager_state(tdir, mdir) ==
  LET tasks == get_all_tasks(tdir) IN
    IF tasks = {} THEN "INITIAL"
    ELSE IF \A t \in tasks : t[2] = "COMPLETED" THEN "COMPLETED"
    ELSE LET pending_tasks == { t[1] : t \in { x \in tasks : x[2] = "PENDING" } }
             available_programmers == get_available_programmers(mdir)
         IN IF pending_tasks # {} /\ available_programmers # {}
            THEN "ASSIGNING"
            ELSE IF pending_tasks # {} THEN "MONITORING"
            ELSE "MONITORING"

\* the run variables are idle in the specification of state inference
RunIdle ==
  /\ RunInit
  /\ max_iterations = 0
  /\ idle_interval = [none |-> TRUE, secs |-> 0]
  /\ ~sessionFile.exists

InitState ==
  /\ RunIdle
  /\ tasksDir \in Dirs(TaskNames, TaskStatusTexts)
  /\ teamDir \in Dirs(MemberNames, MemberStatusTexts)
  /\ mgrResult = "none"
  /\ InferIdle
  /\ StoresIdle

\* a poller calls get_manager_state(planning_dir)
GetManagerState ==
  /\ mgrResult' = get_manager_state(tasksDir, teamDir)
  /\ UNCHANGED << tasksDir, teamDir, inferVars, storeVars, runVars, histVars >>

NextState == GetManagerState

SpecState == InitState /\ [][NextState]_vars

\* ========================================================================
\* Properties of Agent.run (checked under Spec)
\* ========================================================================

OneSignalInFlight ==
  /\ outcome # "running"
  /\ sigCount = 1
  /\ firstSig.inflight
  /\ faulted = "none"

\* the step at which a first SIGINT arrives during a turn changes nothing
\* but shutdown_requested
FirstSignalInFlightOnlySetsFlag ==
  (sigCount' = sigCount + 1 /\ ~shutdown_requested /\ query_running) =>
    /\ shutdown_requested'
    /\ UNCHANGED << pc, query_running, outcome, raisedExc, status,
                    sessionFile, pendingExc, loopExc, promptsSubmitted >>

\* the turn that was in flight reached its result event, the session record
\* of that result is on disk, and no prompt was submitted after the signal
TurnInFlightFinished ==
  /\ resultsReceived = firstSig.turns
  /\ sessionSaves = resultsReceived
  /\ sessionFile = save_session(message.session_id)
  /\ promptsSubmitted = firstSig.prompts

\* the loop was stopped by the graceful shutdown handling
StoppedGracefully ==
  /\ cause = "shutdown"
  /\ outcome = "returned"
  /\ loopExc = "none"
  /\ status.status = "exited:terminated"

\* C2 as stated: a single interrupt received while a turn is in flight only
\* sets shutdown_requested; the turn's stream continues to its result event,
\* the session record is persisted, and the loop then stops gracefully at
\* the next loop boundary without submitting a further prompt
C2_Original ==
  /\ [][FirstSignalInFlightOnlySetsFlag]_vars
  /\ [](OneSignalInFlight => TurnInFlightFinished /\ StoppedGracefully)

\* C2 (amended): a single interrupt received while a turn is in flight only
\* sets shutdown_requested; the turn's stream continues to its result event
\* and the session record is persisted; no further prompt is submitted; the
\* loop stops gracefully at the next loop boundary unless that result
\* satisfies the completion predicate, in which case run stops with
\* "exited:success"
C2_DeferredShutdown ==
  /\ [][FirstSignalInFlightOnlySetsFlag]_vars
  /\ [](OneSignalInFlight =>
          /\ TurnInFlightFinished
          /\ IF message.complete
             THEN cause = "success" /\ outcome = "returned"
                  /\ status = on_complete
             ELSE StoppedGracefully)

\* one SIGINT arrived before the result event of the turn in flight, the
\* result was received afterwards and the loop then stopped gracefully
C2_Witness ==
  /\ OneSignalInFlight
  /\ firstSig.results < resultsReceived
  /\ ~message.complete
  /\ StoppedGracefully
  /\ status = on_shutdown(TRUE)

\* C3: a second interrupt signal, received at any point of run after a
\* first one, raises the immediate-stop condition (ImmediateExit), nothing
\* of the loop is executed after it, and the process terminates with exit
\* code 1
C3_SecondSignalImmediate ==
  /\ [][ (sigCount' = sigCount + 1 /\ firstSig.seen) =>
           \/ pc' = "exc_immediate" /\ pendingExc'.type = "ImmediateExit"
           \/ pc' = "done" /\ raisedExc' = "ImmediateExit"
           \/ pc' = "done" /\ loopExc' = "ImmediateExit" ]_vars
  /\ [](secondSig =>
          /\ pc \in {"exc_immediate", "done"}
          /\ outcome # "running" => ExitCode = 1)

\* a second SIGINT cut a turn in flight short: run ended in sys.exit(1)
\* before the result event of the turn
C3_Witness ==
  /\ secondSig
  /\ firstSig.inflight
  /\ outcome = "sys_exit"
  /\ resultsReceived < turnsStarted
  /\ status = on_shutdown(FALSE)
  /\ ExitCode = 1

\* positions of the loop at which no turn is in flight: the idle sleep, the
\* console read, and the code between two turns
IdlePcs == { "sleep", "read_input", "loop_head", "after_stream", "classify" }

\* C4: a first interrupt signal received while no turn is in flight (idle
\* sleep, console read, between turns) stops the loop immediately: no
\* further prompt is submitted, no further turn is streamed, the status
\* becomes "exited:terminated" and run returns normally (exit code 0)
C4_FirstSignalIdleStops ==
  ( /\ outcome # "running"
    /\ sigCount = 1
    /\ ~firstSig.inflight
    /\ firstSig.at \in IdlePcs
    /\ faulted = "none" ) =>
      /\ promptsSubmitted = firstSig.prompts
      /\ turnsStarted = firstSig.turns
      /\ status.status = "exited:terminated"
      /\ outcome = "returned"
      /\ ExitCode = 0

\* C5: an engine call is never cut short by a single interrupt: if exactly
\* one interrupt arrives between the submission of a prompt and the receipt
\* of its result event, the result event is still received and its session
\* record persisted before the graceful stop takes effect
C5_EngineCallNeverCutShort ==
  ( /\ outcome # "running"
    /\ sigCount = 1
    /\ faulted = "none"
    /\ firstSig.prompts > firstSig.results
    /\ \/ firstSig.at \in StreamPcs
       \/ firstSig.at = "loop_head" /\ firstSig.iteration < max_iterations ) =>
      /\ resultsReceived >= firstSig.prompts
      /\ sessionSaves >= firstSig.prompts

\* C6: for every max_iterations N, a run in which the completion predicate
\* is never true and no interrupt, cancellation or fault occurs streams
\* exactly N turns and stops with status "exited:terminated"; no run streams
\* more than max_iterations turns
C6_ExactlyMaxIterations ==
  /\ turnsStarted <= max_iterations
  /\ ( /\ outcome # "running"
       /\ sigCount = 0
       /\ faulted = "none"
       /\ cause \notin {"success", "cancelled"} ) =>
         /\ turnsStarted = max_iterations
         /\ resultsReceived = max_iterations
         /\ iteration = max_iterations
         /\ status = on_max_iterations(max_iterations)
         /\ outcome = "returned"

\* an undisturbed run with the largest max_iterations streamed that many
\* turns and stopped with "exited:terminated"
C6_Witness ==
  /\ outcome = "returned"
  /\ sigCount = 0
  /\ faulted = "none"
  /\ cause = "max"
  /\ max_iterations = MaxIterations
  /\ resultsReceived = MaxIterations
  /\ status.status = "exited:terminated"

\* C7: on every result event the session record carrying the event's
\* session_id is persisted before the completion predicate is evaluated;
\* when the predicate is true "exited:success" is written after the session
\* save and the loop stops without submitting another prompt
C7_SessionSavedBeforeCompletion ==
  /\ [](pc = "check_complete" =>
          /\ sessionFile = save_session(message.session_id)
          /\ sessionSaves = resultsReceived)
  /\ [][ (status'.status = "exited:success" /\ status.status # "exited:success") =>
           /\ sessionFile = save_session(message.session_id)
           /\ message.complete
           /\ UNCHANGED sessionFile ]_vars
  /\ [][ should_exit => promptsSubmitted' = promptsSubmitted ]_vars
  /\ [](cause = "success" =>
          /\ status = on_complete
          /\ promptsSubmitted = resultsReceived
          /\ sessionFile = save_session(message.session_id))

\* a second turn completed: its session id replaced the first turn's, the
\* status is "exited:success" and run has returned
C7_Witness ==
  /\ cause = "success"
  /\ resultsReceived = 2
  /\ sessionFile.session_id = "s2"
  /\ status = on_complete
  /\ outcome = "returned"

\* C8: when an unhandled fault occurs inside run, the status record is set
\* to "exited:error" with the fault's description before the fault leaves
\* run, and the fault is propagated to the caller, never swallowed
C8_FaultRecordedAndPropagated ==
  /\ (faulted # "none" /\ outcome # "running") => outcome = "raised"
  /\ (outcome # "running" /\ cause = "error") =>
        /\ faulted # "none"
        /\ raisedExc = "Fault"
        /\ status = [status |-> "exited:error",
                     details |-> <<"Error", faulted>>]
  /\ raisedExc = "Fault" => status.status = "exited:error"

\* a fault raised while a turn was being streamed left run after
\* "exited:error" with its description was written
C8_Witness ==
  /\ outcome = "raised"
  /\ raisedExc = "Fault"
  /\ faulted = "timeout"
  /\ resultsReceived < turnsStarted
  /\ status.details = <<"Error", "timeout">>

\* ========================================================================
\* Properties of get_manager_state (checked under SpecState)
\* ========================================================================

\* the task documents that are enumerated (every file of the tasks
\* collection but the template) and the states they are classified as
KnownTasks ==
  { n \in TaskNames : tasksDir.files[n].present /\ LowerName(n) # "template.md" }
KnownTaskStates == { get_task_state(tasksDir, n) : n \in KnownTasks }

\* the states of the member documents that are enumerated (every readable
\* file of the team collection but the template)
KnownMemberStates ==
  { member_state(teamDir.files[n]) :
      n \in { m \in MemberNames : /\ teamDir.files[m].present
                                  /\ teamDir.files[m].readable
                                  /\ LowerName(m) # "template.md" } }

C10_Original ==
  mgrResult # "none" =>
    (mgrResult = "COMPLETED" <=>
       \A n \in KnownTasks : get_task_state(tasksDir, n) = "COMPLETED")

\* C10 (amended): get_manager_state returns COMPLETED if and only if there
\* is at least one known task and every known task is COMPLETED, whatever
\* the states of the team members
C10_CompletedIffAllTasksCompleted ==
  mgrResult # "none" =>
    (mgrResult = "COMPLETED" <=>
       /\ KnownTasks # {}
       /\ \A n \in KnownTasks : get_task_state(tasksDir, n) = "COMPLETED")

\* two completed tasks and a member still working: COMPLETED
C10_Witness ==
  /\ mgrResult = "COMPLETED"
  /\ Cardinality(KnownTasks) = 2
  /\ "WORKING" \in KnownMemberStates

\* ========================================================================
\* Classification of one document (utils/state.py), specification
\* SpecClassify: callers ask for the state of a programmer, of the team and
\* of a task on every content of one collection within the bounds
\* ========================================================================

Digits == << "0", "1", "2", "3", "4", "5", "6", "7", "8", "9" >>

\* a character of the class [a-z0-9]
IsSafe(c) ==
  \/ \E k \in 1..26 : LowerCase[k] = c
  \/ \E k \in 1..10 : Digits[k] = c

\* re.sub(r"[^a-z0-9]+", "-", s): every maximal run of other characters
\* becomes one "-"
sub_unsafe(s) ==
  LET RECURSIVE build(_)
      build(i) ==
        IF i > Len(s) THEN << >>
        ELSE IF IsSafe(s[i]) THEN << s[i] >> \o build(i + 1)
        ELSE IF i = 1 \/ IsSafe(s[i - 1]) THEN << "-" >> \o build(i + 1)
        ELSE build(i + 1)
  IN build(1)

\* str.strip("-")
RECURSIVE strip_dash(_)
strip_dash(s) ==
  IF s = << >> THEN s
  ELSE IF s[1] = "-" THEN strip_dash(Tail(s))
  ELSE IF s[Len(s)] = "-" THEN strip_dash(SubSeq(s, 1, Len(s) - 1))
  ELSE s

\* lines 38-48
sanitize_filename(name) == strip_dash(sub_unsafe(lower(name)))

\* the string spelled by a sequence of characters
RECURSIVE Join(_)
Join(s) == IF s = << >> THEN "" ELSE s[1] \o Join(Tail(s))

\* lines 81-92: the file name of a programmer's team document
get_team_file_path(agent_name) == Join(sanitize_filename(agent_name)) \o ".md"

\* names under which programmers are started
AgentNames ==
  { << "A", "l", "i", "c", "e", " ", "C", "h", "e", "n" >>,
    << "B", "o", "b", "_", "_", "S", "m", "i", "t", "h", "!" >>,
    << "C", "a", "r", "o", "l" >> }

\* Path.exists() / read_text() of a file of a collection
FileAt(dir, filename) ==
  IF dir.exists /\ filename \in DOMAIN dir.files
  THEN dir.files[filename]
  ELSE AbsentFile

\* get_programmer_state testing "assigned" before "working"
get_programmer_state_AssignedFirst(dir, agent_name) ==
  LET team_file == FileAt(dir, get_team_file_path(agent_name)) IN
    IF ~team_file.present THEN "NOT_REGISTERED"
    ELSE IF ~team_file.readable THEN "NOT_REGISTERED"
    ELSE LET field == parse_status_field(team_file) IN
      IF field.none THEN "NOT_REGISTERED"
      ELSE LET status_lower == lower(field.value) IN
        IF Contains(status_lower, kwAssigned) THEN "ASSIGNED"
        ELSE IF Contains(status_lower, kwWorking) THEN "WORKING"
        ELSE "AVAILABLE"

\* lines 95-128
get_programmer_state(dir, agent_name) ==
  LET team_file == FileAt(dir, get_team_file_path(agent_name)) IN
    IF ~team_file.present THEN "NOT_REGISTERED"
    ELSE IF ~team_file.readable THEN "NOT_REGISTERED"
    ELSE LET field == parse_status_field(team_file) IN
      IF field.none THEN "NOT_REGISTERED"
      ELSE LET status_lower == lower(field.value) IN
        IF Contains(status_lower, kwWorking) THEN "WORKING"
        ELSE IF Contains(status_lower, kwAssigned) THEN "ASSIGNED"
        ELSE IF Contains(status_lower, kwAvailable) THEN "AVAILABLE"
        ELSE "AVAILABLE"

\* Status values found in member documents: the ones the agents write, one
\* naming two states, one unrecognized, an empty one
ClassifyMemberTexts ==
  MemberStatusTexts \cup
  { << "a", "v", "a", "i", "l", "a", "b", "l", "e", ",", " ", "n", "o", "t",
       " ", "W", "o", "r", "k", "i", "n", "g" >>,
    << "U", "N", "A", "S", "S", "I", "G", "N", "E", "D" >>,
    << "{", "}" >>,
    << >> }

\* Status values found in task documents
ClassifyTaskTexts ==
  TaskStatusTexts \cup
  { << "i", "n", "_", "p", "r", "o", "g", "r", "e", "s", "s" >>,
    << "I", "N", " ", "P", "R", "O", "G", "R", "E", "S", "S", ",", " ", "n",
       "o", "t", " ", "C", "o", "m", "p", "l", "e", "t", "e", "d" >>,
    << "i", "n", "p", "r", "o", "g", "r", "e", "s", "s" >>,
    << >> }

\* a collection whose directory does not exist
NoDir(names) == [exists |-> FALSE, files |-> [n \in names |-> AbsentFile]]

InitClassify ==
  /\ RunIdle
  /\ mgrResult = "none"
  /\ InferIdle
  /\ StoresIdle
  /\ \/ /\ tasksDir \in Dirs(TaskNames, ClassifyTaskTexts)
        /\ teamDir = NoDir(MemberNames)
     \/ /\ tasksDir = NoDir(TaskNames)
        /\ teamDir \in Dirs(MemberNames, ClassifyMemberTexts)

\* a programmer's loop calls get_programmer_state(planning_dir, agent_name)
GetProgrammerState(agent_name) ==
  /\ progResult' = [called |-> TRUE, arg |-> get_team_file_path(agent_name),
                    value |-> get_programmer_state(teamDir, agent_name)]
  /\ UNCHANGED << tasksDir, teamDir, mgrResult, teamResult, taskResult,
                  storeVars, runVars, histVars >>

\* get_all_team_members(planning_dir)
GetAllTeamMembers ==
  /\ teamResult' = [called |-> TRUE, value |-> get_all_team_members(teamDir)]
  /\ UNCHANGED << tasksDir, teamDir, mgrResult, progResult, taskResult,
                  storeVars, runVars, histVars >>

\* get_task_state(planning_dir, task_filename)
GetTaskState(task_filename) ==
  /\ taskResult' = [called |-> TRUE, arg |-> task_filename,
                    value |-> get_task_state(tasksDir, task_filename)]
  /\ UNCHANGED << tasksDir, teamDir, mgrResult, progResult, teamResult,
                  storeVars, runVars, histVars >>

NextClassify ==
  \/ \E agent_name \in AgentNames : GetProgrammerState(agent_name)
  \/ GetAllTeamMembers
  \/ \E task_filename \in TaskNames : GetTaskState(task_filename)

SpecClassify == InitClassify /\ [][NextClassify]_vars

\* ========================================================================
\* Properties of the classification of one document (checked under
\* SpecClassify)
\* ========================================================================

\* s contains sub when letter case is ignored, character by character
ContainsIgnoringCase(s, sub) ==
  \E i \in 1..(Len(s) - Len(sub) + 1) :
    \A j \in 1..Len(sub) : lower(<< s[i + j - 1] >>) = << sub[j] >>

\* the document has a Status field that is filled in: the heading and a
\* value are there and the value is not wrapped in braces
StatusFilled(doc) ==
  /\ doc.hasStatus
  /\ ~ ( /\ Len(doc.statusText) >= 2
         /\ Head(doc.statusText) = "{"
         /\ doc.statusText[Len(doc.statusText)] = "}" )

\* the state the classification rules give a member document, the rules
\* applied in the order they are listed
ListedMemberState(doc) ==
  IF ~doc.present THEN "NOT_REGISTERED"
  ELSE IF ~StatusFilled(doc) THEN "AVAILABLE"
  ELSE IF ContainsIgnoringCase(doc.statusText, kwWorking) THEN "WORKING"
  ELSE IF ContainsIgnoringCase(doc.statusText, kwAssigned) THEN "ASSIGNED"
  ELSE "AVAILABLE"

\* C11: a member's state is NOT_REGISTERED when there is no member
\* document, WORKING / ASSIGNED / AVAILABLE when the Status value contains
\* "working" / "assigned" / "available", and AVAILABLE when the document
\* exists but its Status field is absent, a placeholder or unrecognized;
\* get_programmer_state and get_all_team_members both give a readable
\* document this state
C11_MemberClassification ==
  /\ progResult.called =>
       LET doc == FileAt(teamDir, progResult.arg) IN
         (doc.present => doc.readable) =>
           progResult.value = ListedMemberState(doc)
  /\ teamResult.called =>
       \A m \in teamResult.value :
         m[2] = ListedMemberState(FileAt(teamDir, m[1]))

\* the state the classification rules give a task document, the rules
\* applied in the order they are listed
ListedTaskState(doc) ==
  IF ~doc.present \/ ~StatusFilled(doc) THEN "PENDING"
  ELSE IF ContainsIgnoringCase(doc.statusText, kwCompleted) THEN "COMPLETED"
  ELSE IF \/ ContainsIgnoringCase(doc.statusText, kwInProgressS)
          \/ ContainsIgnoringCase(doc.statusText, kwInProgressU)
       THEN "IN_PROGRESS"
  ELSE "PENDING"

PyNone == [t |-> "none", s |-> "", n |-> 0, d |-> << >>, items |-> << >>]
PyStr(x) == [t |-> "str", s |-> x, n |-> 0, d |-> << >>, items |-> << >>]
PyInt(k) == [t |-> "int", s |-> "", n |-> k, d |-> << >>, items |-> << >>]
PyDict(f) == [t |-> "dict", s |-> "", n |-> 0, d |-> f, items |-> << >>]
PyList(l) == [t |-> "list", s |-> "", n |-> 0, d |-> << >>, items |-> l]
PyBool(b) ==
  [t |-> "bool", s |-> "", n |-> IF b THEN 1 ELSE 0, d |-> << >>,
   items |-> << >>]

EmptyDict == [k \in {} |-> PyNone]

\* bool(value) is false
Falsy(v) ==
  \/ v.t = "none"
  \/ v.t = "str" /\ v.s = ""
  \/ v.t \in { "int", "bool" } /\ v.n = 0
  \/ v.t = "dict" /\ DOMAIN v.d = {}
  \/ v.t = "list" /\ v.items = << >>

\* {**base, **over}
Merge(base, over) ==
  [k \in DOMAIN base \cup DOMAIN over |->
     IF k \in DOMAIN over THEN over[k] ELSE base[k]]

\* The text of a file is a sequence of tokens: the punctuation of a JSON
\* object or array, a key, a scalar value, a word that is not JSON, or a byte
\* sequence that is not valid UTF-8.
Tok(kind, key, val) == [k |-> kind, key |-> key, val |-> val]
TObjOpen == Tok("{", "", PyNone)
TObjClose == Tok("}", "", PyNone)
TArrOpen == Tok("[", "", PyNone)
TArrClose == Tok("]", "", PyNone)
TKey(name) == Tok("key", name, PyNone)
TVal(v) == Tok("val", "", v)
TWord == Tok("word", "", PyNone)
TBadBytes == Tok("bad", "", PyNone)

\* the order in which the keys of a dict are written
KeyOrder ==
  << "status", "details", "last_update", "pid", "agent_type", "name",
     "project", "current_issue", "current_pr", "started_at", "x", "y",
     "session_id", "agent_name", "prefix", "last_run", "num_turns",
     "total_cost_usd" >>

\* json.dumps(data) / json.dump(data, f) of a dict of scalars
json_dumps(data) ==
  LET RECURSIVE members(_)
      members(i) ==
        IF i > Len(KeyOrder) THEN << >>
        ELSE (IF KeyOrder[i] \in DOMAIN data
              THEN << TKey(KeyOrder[i]), TVal(data[KeyOrder[i]]) >>
              ELSE << >>) \o members(i + 1)
  IN << TObjOpen >> \o members(1) \o << TObjClose >>

\* the outcome of an operation: the exception it raises ("none" when it
\* returns) and the value it returns
Returns(v) == [exc |-> "none", value |-> v]
Raises(e) == [exc |-> e, value |-> PyNone]

\* the members of a JSON object: alternating keys and values
IsMembers(body) ==
  /\ Len(body) % 2 = 0
  /\ \A i \in 1..Len(body) :
       body[i].k = (IF i % 2 = 1 THEN "key" ELSE "val")

\* the dict a member list denotes; of a repeated key the last value counts
DictOf(body) ==
  [name \in { body[i].key : i \in { j \in 1..Len(body) : j % 2 = 1 } } |->
     LET last == CHOOSE i \in 1..Len(body) :
                   /\ i % 2 = 1 /\ body[i].key = name
                   /\ \A j \in (i + 1)..Len(body) :
                        ~(j % 2 = 1 /\ body[j].key = name)
     IN body[last + 1].val]

\* json.loads(text) of decoded text
json_loads(text) ==
  LET n == Len(text)
      body == SubSeq(text, 2, n - 1)
  IN IF n >= 2 /\ text[1] = TObjOpen /\ text[n] = TObjClose /\ IsMembers(body)
     THEN Returns(PyDict(DictOf(body)))
     ELSE IF /\ n >= 2 /\ text[1] = TArrOpen /\ text[n] = TArrClose
             /\ \A i \in 1..Len(body) : body[i].k = "val"
     THEN Returns(PyList([i \in 1..Len(body) |-> body[i].val]))
     ELSE IF n = 1 /\ text[1].k = "val"
     THEN Returns(text[1].val)
     ELSE Raises("JSONDecodeError")

\* A file: absent, or present with its text; open() of an unreadable file
\* raises PermissionError, an OSError
NoFile == [exists |-> FALSE, readable |-> FALSE, text |-> << >>]
FileOf(text) == [exists |-> TRUE, readable |-> TRUE, text |-> text]
LockedFile(text) == [exists |-> TRUE, readable |-> FALSE, text |-> text]

\* Path.read_text() / open(path).read(): the decoded text of the file
read_text(file) ==
  IF ~file.exists \/ ~file.readable THEN Raises("OSError")
  ELSE IF \E i \in 1..Len(file.text) : file.text[i] = TBadBytes
  THEN Raises("UnicodeDecodeError")
  ELSE [exc |-> "none", value |-> file.text]

\* json.loads(path.read_text()) / json.load(open(path))
load_file(file) ==
  LET content == read_text(file) IN
    IF content.exc # "none" THEN Raises(content.exc)
    ELSE json_loads(content.value)

\* ------------------------------------------------------------------------
\* Status files (utils/status.py)
\* ------------------------------------------------------------------------
\* line 16
STALE_THRESHOLD_SECONDS == 300

\* number of times the clock advances
MaxTicks == 2

\* the clock advances by a second or by the staleness threshold
TickSteps == { 1, STALE_THRESHOLD_SECONDS }

\* the instants the clock can show
Times ==
  { a + b * STALE_THRESHOLD_SECONDS :
      a \in 0..MaxTicks, b \in 0..MaxTicks }

\* datetime.isoformat(): the text of an instant, seconds since the start
isoformat(time) == "T+" \o ToString(time)

\* datetime.fromisoformat(value): the instant a text denotes; TypeError
\* when the value is not a string, ValueError when it is not a timestamp
fromisoformat(v) ==
  IF v.t # "str" THEN Raises("TypeError")
  ELSE IF \E time \in Times : isoformat(time) = v.s
  THEN Returns(PyInt(CHOOSE time \in Times : isoformat(time) = v.s))
  ELSE Raises("ValueError")

\* status tags written by the agents
StatusTags ==
  { "starting", "working", "idle", "exited:success", "exited:terminated",
    "exited:error" }

\* str.startswith("exited:") on the status tags
startswith_exited(s) ==
  s \in { "exited:success", "exited:terminated", "exited:error" }

\* process ids of the agents
Pids == { 101, 102 }

\* int(value) as used on the pid field: a number is itself, a string is
\* parsed (ValueError when it is not a number)
int_of(v) ==
  IF v.t \in { "int", "bool" } THEN Returns(PyInt(v.n))
  ELSE IF v.t = "str"
  THEN IF \E k \in Pids : ToString(k) = v.s
       THEN Returns(PyInt(CHOOSE k \in Pids : ToString(k) = v.s))
       ELSE Raises("ValueError")
  ELSE Raises("TypeError")

\* lines 129-144: seen is the file at the exists() test, file the file at
\* the read that follows
read_status(seen, file) ==
  IF ~seen.exists THEN Returns(PyNone)
  ELSE LET loaded == load_file(file) IN
    IF loaded.exc \in { "JSONDecodeError", "OSError" } THEN Returns(PyNone)
    ELSE loaded

\* lines 147-168, data being the outcome of read_status
is_agent_stale(data, time, threshold_seconds) ==
  IF data.exc # "none" THEN data
  ELSE IF Falsy(data.value) THEN Returns(PyBool(TRUE))
  ELSE IF data.value.t # "dict" THEN Raises("TypeError")
  ELSE IF "last_update" \notin DOMAIN data.value.d THEN Returns(PyBool(TRUE))
  ELSE LET last_update == fromisoformat(data.value.d["last_update"]) IN
    IF last_update.exc = "ValueError" THEN Returns(PyBool(TRUE))
    ELSE IF last_update.exc # "none" THEN Raises(last_update.exc)
    ELSE Returns(PyBool(time - last_update.value.n > threshold_seconds))

\* lines 171-185
is_agent_exited(data) ==
  IF data.exc # "none" THEN data
  ELSE IF Falsy(data.value) THEN Returns(PyBool(FALSE))
  ELSE IF data.value.t # "dict" THEN Raises("AttributeError")
  ELSE IF "status" \notin DOMAIN data.value.d THEN Returns(PyBool(FALSE))
  ELSE IF data.value.d["status"].t # "str" THEN Raises("AttributeError")
  ELSE Returns(PyBool(startswith_exited(data.value.d["status"].s)))

\* lines 188-202
get_agent_pid(data) ==
  IF data.exc # "none" THEN data
  ELSE IF Falsy(data.value) THEN Returns(PyNone)
  ELSE IF data.value.t # "dict" THEN Raises("AttributeError")
  ELSE IF "pid" \notin DOMAIN data.value.d THEN Returns(PyNone)
  ELSE IF data.value.d["pid"].t = "none" THEN Returns(PyNone)
  ELSE int_of(data.value.d["pid"])

\* load_existing that never reads the file
load_existing_Never(seen, file) == Returns(PyDict(EmptyDict))

\* lines 82-88: the existing record update_status starts from
load_existing(seen, file) ==
  IF ~seen.exists THEN Returns(PyDict(EmptyDict))
  ELSE LET loaded == load_file(file) IN
    IF loaded.exc \in { "JSONDecodeError", "OSError" }
    THEN Returns(PyDict(EmptyDict))
    ELSE loaded

\* the keyword arguments of a call that are not None
Given(call, names) ==
  [k \in { m \in names : call[m].t # "none" } |-> call[k]]

\* lines 107-114: current_issue and current_pr default to None once
NoneIfMissing(data, names) ==
  [k \in { m \in names : m \notin DOMAIN data } |-> PyNone]

\* build_data starting from an empty record instead of the existing one
build_data_Fresh(existing, call, pid, time) ==
  IF existing.t # "dict" THEN Raises("TypeError")
  ELSE
    LET base ==
          Merge(Merge(EmptyDict,
                      [k \in { "status", "details", "last_update", "pid" } |->
                         CASE k = "status" -> PyStr(call.status)
                           [] k = "details" -> PyStr(call.details)
                           [] k = "last_update" -> PyStr(isoformat(time))
                           [] k = "pid" -> PyInt(pid)]),
                call.extra)
        named == Merge(base, Given(call, { "agent_type", "name", "project" }))
        issue == Merge(named, Given(call, { "current_issue", "current_pr" }))
        filled ==
          Merge(issue, NoneIfMissing(issue, { "current_issue", "current_pr" }))
    IN Returns(PyDict(
         IF "started_at" \in DOMAIN filled THEN filled
         ELSE Merge(filled, [k \in { "started_at" } |-> PyStr(isoformat(time))])))

\* lines 90-118: the record update_status writes; TypeError when the
\* existing value is not a mapping
build_data(existing, call, pid, time) ==
  IF existing.t # "dict" THEN Raises("TypeError")
  ELSE
    LET base ==
          Merge(Merge(existing.d,
                      [k \in { "status", "details", "last_update", "pid" } |->
                         CASE k = "status" -> PyStr(call.status)
                           [] k = "details" -> PyStr(call.details)
                           [] k = "last_update" -> PyStr(isoformat(time))
                           [] k = "pid" -> PyInt(pid)]),
                call.extra)
        named == Merge(base, Given(call, { "agent_type", "name", "project" }))
        issue == Merge(named, Given(call, { "current_issue", "current_pr" }))
        filled ==
          Merge(issue, NoneIfMissing(issue, { "current_issue", "current_pr" }))
    IN Returns(PyDict(
         IF "started_at" \in DOMAIN filled THEN filled
         ELSE Merge(filled, [k \in { "started_at" } |-> PyStr(isoformat(time))])))

\* ------------------------------------------------------------------------
\* Calls on one status file, one after another: update_status by the agent
\* (or by the agent restarted under another process id), read_status and
\* the predicates derived from it by a monitor; specification SpecStatus
\* ------------------------------------------------------------------------
\* number of update_status calls
MaxUpdates == 2

\* get_status_path(prefix, "manager")
status_path == "manager.status"

\* a temporary path equal to the status path itself
with_suffix_tmp_InPlace(path) == path

\* status_path.with_suffix(".tmp")
with_suffix_tmp(path) ==
  IF path = "manager.status" THEN "manager.tmp" ELSE path

StatusPaths == { status_path, with_suffix_tmp(status_path) }

\* the arguments of an update_status call; an argument left out has its
\* default (details "", the others None, no extra fields)
NoArgs ==
  [status |-> "", details |-> "", agent_type |-> PyNone, name |-> PyNone,
   project |-> PyNone, current_issue |-> PyNone, current_pr |-> PyNone,
   extra |-> EmptyDict]

\* calls as the agents make them: the first status of the manager, a status
\* without details and with an extension field, a status with an issue,
\* and a call passing started_at as an extension field
UpdateCalls ==
  { [NoArgs EXCEPT !.status = "starting", !.details = "Initializing",
                   !.agent_type = PyStr("manager"),
                   !.project = PyStr("demo")],
    [NoArgs EXCEPT !.status = "working",
                   !.extra = [k \in { "x" } |-> PyInt(1)]],
    [NoArgs EXCEPT !.status = "idle", !.details = "Waiting",
                   !.current_issue = PyInt(7),
                   !.extra = [k \in { "y" } |-> PyInt(2)]],
    [NoArgs EXCEPT !.status = "working", !.details = "Restarted",
                   !.extra = [k \in { "started_at" } |-> PyStr(isoformat(1))]] }

\* Contents of a status file that are not a record: empty, cut short, not
\* JSON, not UTF-8, JSON that is an array or null; and a record whose
\* fields have the wrong types
BrokenTexts ==
  { << >>,
    << TObjOpen, TKey("status"), TVal(PyStr("working")), TKey("details") >>,
    << TWord >>,
    << TBadBytes >>,
    << TArrOpen, TVal(PyInt(1)), TVal(PyInt(2)), TArrClose >>,
    << TVal(PyNone) >>,
    json_dumps([k \in { "status", "pid", "last_update" } |->
                  CASE k = "status" -> PyInt(5)
                    [] k = "pid" -> PyStr("x")
                    [] k = "last_update" -> PyInt(7)]) }

InitialStatusFiles ==
  { NoFile, LockedFile(json_dumps(EmptyDict)) }
  \cup { FileOf(text) : text \in BrokenTexts }

UpdIdle ==
  [pc |-> "idle", call |-> NoArgs, pid |-> 0, data |-> EmptyDict,
   text |-> << >>]

NoRead ==
  [pc |-> "idle", op |-> "", threshold |-> 0, seen |-> NoFile,
   done |-> FALSE, result |-> Returns(PyNone), file |-> NoFile, time |-> 0,
   from |-> 0, upto |-> 0, writer |-> "idle"]

NoUpdate ==
  [done |-> FALSE, exc |-> "none", call |-> NoArgs, pid |-> 0,
   before |-> NoFile]

\* the other variables are idle in the specifications of the status file
StatusFrame ==
  UNCHANGED << runVars, histVars, tasksDir, teamDir, mgrResult, inferVars,
               sessionVars, toolVars >>

\* the status directory holding one file at the status path
StatusDir(file) ==
  [p \in StatusPaths |-> IF p = status_path THEN file ELSE NoFile]

\* the status directory is in the state dir, the clock at its start and
\* no call has been made
StatusStart(dirs) ==
  /\ RunIdle
  /\ tasksDir = [exists |-> FALSE, files |-> << >>]
  /\ teamDir = [exists |-> FALSE, files |-> << >>]
  /\ mgrResult = "none"
  /\ InferIdle
  /\ SessionIdle
  /\ ToolsIdle
  /\ fs \in dirs
  /\ now = 0
  /\ ticks = 0
  /\ upd = UpdIdle
  /\ rd = NoRead
  /\ updCount = 0
  /\ lastUpdate = NoUpdate
  /\ commits = << >>

\* the agent starts with no status file, or with one cut short
InitStatus ==
  StatusStart({ StatusDir(NoFile),
                StatusDir(FileOf(<< TObjOpen, TKey("status") >>)) })

\* time passes
Tick(dt) ==
  /\ ticks < MaxTicks
  /\ ticks' = ticks + 1
  /\ now' = now + dt
  /\ UNCHANGED << fs, upd, rd, updCount, lastUpdate, commits >>
  /\ StatusFrame

\* lines 82-118: the record update_status is going to write, or the
\* exception raised on the way
prepare(files, call, pid, time) ==
  LET existing == load_existing(files[status_path], files[status_path]) IN
    IF existing.exc # "none" THEN existing
    ELSE build_data(existing.value, call, pid, time)

\* Path.write_text(text), completed
write_text(files, path, text) == [files EXCEPT ![path] = FileOf(text)]

\* Path.rename(target): the file takes the target's place in one step
rename(files, source, target) ==
  IF source = target THEN files
  ELSE [files EXCEPT ![target] = files[source], ![source] = NoFile]

\* lines 58-126: a process with id pid calls update_status(status_path,
\* **call), which returns or raises
CallUpdate(call, pid) ==
  /\ upd.pc = "idle"
  /\ updCount < MaxUpdates
  /\ updCount' = updCount + 1
  /\ LET data == prepare(fs, call, pid, now)
         temp_path == with_suffix_tmp(status_path)
     IN /\ lastUpdate' = [done |-> TRUE, exc |-> data.exc, call |-> call,
                          pid |-> pid, before |-> fs[status_path]]
        /\ IF data.exc # "none"
           THEN UNCHANGED << fs, commits >>
           ELSE /\ fs' = rename(write_text(fs, temp_path,
                                           json_dumps(data.value.d)),
                                temp_path, status_path)
                /\ commits' = Append(commits, data.value.d)
  /\ UNCHANGED << now, ticks, upd, rd >>
  /\ StatusFrame

\* the functions that read the status file
ReadOps ==
  { "read_status", "is_agent_stale", "is_agent_exited", "get_agent_pid" }

\* thresholds passed to is_agent_stale: the default and a short one
Thresholds == { STALE_THRESHOLD_SECONDS, 1 }

\* the outcome of a reading function, given the outcome of read_status
read_op(op, data, time, threshold_seconds) ==
  CASE op = "read_status" -> data
    [] op = "is_agent_stale" -> is_agent_stale(data, time, threshold_seconds)
    [] op = "is_agent_exited" -> is_agent_exited(data)
    [] op = "get_agent_pid" -> get_agent_pid(data)

\* lines 129-202: a monitor calls one of the reading functions, which
\* returns or raises
CallRead(op, threshold_seconds) ==
  /\ rd.pc = "idle"
  /\ rd' = [NoRead EXCEPT
              !.op = op,
              !.threshold = IF op = "is_agent_stale"
                            THEN threshold_seconds ELSE 0,
              !.seen = fs[status_path],
              !.done = TRUE,
              !.file = fs[status_path],
              !.time = now,
              !.from = Len(commits),
              !.upto = Len(commits),
              !.result = read_op(op,
                                 read_status(fs[status_path], fs[status_path]),
                                 now, threshold_seconds)]
  /\ UNCHANGED << fs, now, ticks, upd, updCount, lastUpdate, commits >>
  /\ StatusFrame

NextStatus ==
  \/ \E dt \in TickSteps : Tick(dt)
  \/ \E call \in UpdateCalls, pid \in Pids : CallUpdate(call, pid)

SpecStatus == InitStatus /\ [][NextStatus]_vars

\* ------------------------------------------------------------------------
\* A monitor reads a status file that it finds in any state, and an agent
\* starting up updates it; specification SpecMonitor
\* ------------------------------------------------------------------------
InitMonitor ==
  StatusStart({ StatusDir(file) : file \in InitialStatusFiles })

\* the first update_status call of an agent (Agent.__init__, run_manager)
StartupCalls ==
  { [NoArgs EXCEPT !.status = "starting", !.details = "Initializing",
                   !.agent_type = PyStr("manager"),
                   !.project = PyStr("demo")] }

NextMonitor ==
  \/ \E dt \in TickSteps : Tick(dt)
  \/ \E op \in ReadOps, threshold_seconds \in Thresholds :
       CallRead(op, threshold_seconds)
  \/ \E call \in StartupCalls : CallUpdate(call, 101)

SpecMonitor == InitMonitor /\ [][NextMonitor]_vars

\* ========================================================================
\* Properties of the status file under calls made one after another
\* (checked under SpecStatus)
\* ========================================================================

\* the record a file holds; the empty record when it holds none
RecordIn(file) ==
  LET loaded == load_file(file) IN
    IF file.exists /\ loaded.exc = "none" /\ loaded.value.t = "dict"
    THEN loaded.value.d
    ELSE EmptyDict

\* the instant a record's field gives
InstantOf(record, field) == fromisoformat(record[field]).value.n

\* the optional named arguments of update_status
NamedArgs ==
  { "agent_type", "name", "project", "current_issue", "current_pr" }

\* the fields a call gives a value to, besides status
SpecifiedBy(call) ==
  { k \in NamedArgs : call[k].t # "none" } \cup DOMAIN call.extra

\* an update_status call has returned: the fields the call specifies have
\* the call's values, status is the call's status and last_update has not
\* decreased
CallApplied(before, after, call) ==
  /\ after["status"] = PyStr(call.status)
  /\ \A k \in SpecifiedBy(call) \cap NamedArgs : after[k] = call[k]
  /\ \A k \in DOMAIN call.extra : after[k] = call.extra[k]
  /\ "last_update" \in DOMAIN before =>
       InstantOf(after, "last_update") >= InstantOf(before, "last_update")

\* C13 as stated: after every update_status call, every field of the
\* existing record that the call does not specify keeps its previous value,
\* details included when the caller omits it; the specified fields take the
\* new values, status is the call's and last_update does not decrease
C13_Original ==
  (lastUpdate.done /\ lastUpdate.exc = "none") =>
    LET before == RecordIn(lastUpdate.before)
        after == RecordIn(fs[status_path])
        call == lastUpdate.call
        kept == (DOMAIN before \ { "status", "last_update", "pid" })
                  \ ( SpecifiedBy(call) \cup
                      (IF call.details = "" THEN {} ELSE { "details" }) )
    IN /\ \A k \in kept : k \in DOMAIN after /\ after[k] = before[k]
       /\ call.details # "" => after["details"] = PyStr(call.details)
       /\ CallApplied(before, after, call)

\* C13 (amended): after every update_status call, every field of the
\* existing record other than status, details, last_update and pid that the
\* call does not specify keeps its previous value; the specified fields take
\* the new values; status and details are the call's, details being empty
\* when the caller omits it; pid is the caller's; last_update does not
\* decrease
C13_AdditiveMerge ==
  (lastUpdate.done /\ lastUpdate.exc = "none") =>
    LET before == RecordIn(lastUpdate.before)
        after == RecordIn(fs[status_path])
        call == lastUpdate.call
        kept == (DOMAIN before \ { "status", "details", "last_update", "pid" })
                  \ SpecifiedBy(call)
    IN /\ \A k \in kept : k \in DOMAIN after /\ after[k] = before[k]
       /\ after["details"] = PyStr(call.details)
       /\ after["pid"] = PyInt(lastUpdate.pid)
       /\ CallApplied(before, after, call)

\* a call that specifies y but not x was applied to a record holding x, and
\* the record now holds both
C13_Witness ==
  /\ lastUpdate.done /\ lastUpdate.exc = "none"
  /\ "x" \in DOMAIN RecordIn(lastUpdate.before)
  /\ "x" \notin SpecifiedBy(lastUpdate.call)
  /\ "y" \in DOMAIN lastUpdate.call.extra
  /\ RecordIn(fs[status_path])["x"] = PyInt(1)
  /\ RecordIn(fs[status_path])["y"] = PyInt(2)
  /\ RecordIn(fs[status_path])["status"] = PyStr("idle")

\* C20: started_at is set once. An update_status call on a path without a
\* record sets started_at to the time of the call, and no later call, by
\* the same or by another process, changes it, unless the call passes
\* started_at as an extension field (SpecStatus neither deletes nor
\* corrupts the file)
C20_StartedAtSetOnce ==
  [][ (fs'[status_path] # fs[status_path]
       /\ "started_at" \notin DOMAIN lastUpdate'.call.extra) =>
        LET before == RecordIn(fs[status_path])
            after == RecordIn(fs'[status_path])
        IN /\ "started_at" \in DOMAIN after
           /\ IF "started_at" \in DOMAIN before
              THEN after["started_at"] = before["started_at"]
              ELSE after["started_at"] = PyStr(isoformat(now)) ]_vars

\* two processes have updated the record one after the other, at different
\* times, and started_at is still the time of the first call
C20_Witness ==
  /\ Len(commits) = 2
  /\ commits[1]["pid"] # commits[2]["pid"]
  /\ commits[2]["last_update"] # commits[1]["last_update"]
  /\ commits[2]["started_at"] = commits[1]["last_update"]
  /\ RecordIn(fs[status_path]) = commits[2]

\* ------------------------------------------------------------------------
\* One process executes update_status step by step while another calls
\* read_status; specification SpecStatusRace
\* ------------------------------------------------------------------------
\* a record left by an earlier run of the agent
EarlierRecord ==
  [k \in { "status", "details", "last_update", "pid", "current_issue",
           "current_pr", "started_at" } |->
     CASE k = "status" -> PyStr("idle")
       [] k = "details" -> PyStr("Waiting")
       [] k = "pid" -> PyInt(102)
       [] k \in { "last_update", "started_at" } -> PyStr(isoformat(0))
       [] OTHER -> PyNone]

\* the calls of the writing process
RaceCalls ==
  { call \in UpdateCalls : DOMAIN call.extra \subseteq { "x" } }

\* there is no status file yet, or the one an earlier run left
InitRace ==
  /\ RunIdle
  /\ tasksDir = [exists |-> FALSE, files |-> << >>]
  /\ teamDir = [exists |-> FALSE, files |-> << >>]
  /\ mgrResult = "none"
  /\ InferIdle
  /\ SessionIdle
  /\ ToolsIdle
  /\ \E earlier \in BOOLEAN :
       /\ fs = StatusDir(IF earlier THEN FileOf(json_dumps(EarlierRecord))
                                   ELSE NoFile)
       /\ commits = IF earlier THEN << EarlierRecord >> ELSE << >>
  /\ now = 0
  /\ ticks = 0
  /\ upd = UpdIdle
  /\ rd = NoRead
  /\ updCount = 0
  /\ lastUpdate = NoUpdate

\* lines 82-121: the writing process calls update_status(status_path,
\* **call); the existing record is read and the new record built, or the
\* call raises
UpdateStart(call, pid) ==
  /\ upd.pc = "idle"
  /\ updCount < MaxUpdates
  /\ updCount' = updCount + 1
  /\ LET data == prepare(fs, call, pid, now) IN
       IF data.exc # "none"
       THEN /\ upd' = UpdIdle
            /\ lastUpdate' = [done |-> TRUE, exc |-> data.exc, call |-> call,
                              pid |-> pid, before |-> fs[status_path]]
       ELSE /\ upd' = [pc |-> "open_temp", call |-> call, pid |-> pid,
                       data |-> data.value.d,
                       text |-> json_dumps(data.value.d)]
            /\ UNCHANGED lastUpdate
  /\ UNCHANGED << fs, now, ticks, rd, commits >>
  /\ StatusFrame

\* line 125, write_text: the temporary file is created or emptied
WriteTempOpen ==
  /\ upd.pc = "open_temp"
  /\ fs' = write_text(fs, with_suffix_tmp(status_path), << >>)
  /\ upd' = [upd EXCEPT !.pc = "write_temp"]
  /\ UNCHANGED << now, ticks, rd, updCount, lastUpdate, commits >>
  /\ StatusFrame

\* line 125, write_text: the first part of the text reaches the file
WriteTempPart ==
  /\ upd.pc = "write_temp"
  /\ fs' = write_text(fs, with_suffix_tmp(status_path),
                      SubSeq(upd.text, 1, Len(upd.text) \div 2))
  /\ upd' = [upd EXCEPT !.pc = "finish_temp"]
  /\ UNCHANGED << now, ticks, rd, updCount, lastUpdate, commits >>
  /\ StatusFrame

\* line 125, write_text: the rest of the text reaches the file
WriteTempRest ==
  /\ upd.pc = "finish_temp"
  /\ fs' = write_text(fs, with_suffix_tmp(status_path), upd.text)
  /\ upd' = [upd EXCEPT !.pc = "rename"]
  /\ UNCHANGED << now, ticks, rd, updCount, lastUpdate, commits >>
  /\ StatusFrame

\* line 126: the temporary file is renamed and update_status returns
Rename ==
  /\ upd.pc = "rename"
  /\ fs' = rename(fs, with_suffix_tmp(status_path), status_path)
  /\ upd' = UpdIdle
  /\ lastUpdate' = [done |-> TRUE, exc |-> "none", call |-> upd.call,
                    pid |-> upd.pid, before |-> fs[status_path]]
  /\ commits' = Append(commits, upd.data)
  /\ UNCHANGED << now, ticks, rd, updCount >>
  /\ StatusFrame

\* line 138: the reading process calls read_status, which tests whether
\* the file exists
ReadBegin ==
  /\ rd.pc = "idle"
  /\ rd' = [NoRead EXCEPT !.pc = "read", !.op = "read_status",
                          !.seen = fs[status_path],
                          !.from = Len(commits)]
  /\ UNCHANGED << fs, now, ticks, upd, updCount, lastUpdate, commits >>
  /\ StatusFrame

\* lines 139-144: read_status returns absent, or reads the file and returns
\* or raises
ReadFinish ==
  /\ rd.pc = "read"
  /\ rd' = [rd EXCEPT
              !.pc = "idle",
              !.done = TRUE,
              !.file = IF rd.seen.exists THEN fs[status_path] ELSE NoFile,
              !.upto = Len(commits),
              !.writer = upd.pc,
              !.result = read_status(rd.seen, fs[status_path])]
  /\ UNCHANGED << fs, now, ticks, upd, updCount, lastUpdate, commits >>
  /\ StatusFrame

NextRace ==
  \/ \E call \in RaceCalls : UpdateStart(call, 101)
  \/ WriteTempOpen
  \/ WriteTempPart
  \/ WriteTempRest
  \/ Rename
  \/ ReadBegin
  \/ ReadFinish

SpecStatusRace == InitRace /\ [][NextRace]_vars

\* ========================================================================
\* Properties of the status file under a concurrent reader (checked under
\* SpecStatusRace)
\* ========================================================================

\* C14: every read_status call made while another process updates the file
\* returns a complete record, the one the file held when the call began or
\* one written since; it returns absent only if no record existed when the
\* call began, and it never raises
C14_ReadsSeeCompleteRecords ==
  rd.done =>
    /\ rd.result.exc = "none"
    /\ IF rd.result.value = PyNone
       THEN rd.from = 0
       ELSE \E i \in 1..rd.upto :
              /\ i >= rd.from
              /\ rd.result.value = PyDict(commits[i])

\* a read_status call has read the file while the writer had written only
\* a part of the new record, and returned the previous record
C14_Witness ==
  /\ rd.done
  /\ rd.writer = "finish_temp"
  /\ rd.from >= 1
  /\ rd.result.value = PyDict(commits[rd.from])

\* ========================================================================
\* Properties of reading a status file found in any state (checked under
\* SpecMonitor)
\* ========================================================================

\* the file holds no record: it is missing, cannot be read or decoded, is
\* not JSON (empty, cut short, other text), or is JSON that is not an object
HoldsNoRecord(file) ==
  \/ ~file.exists
  \/ ~file.readable
  \/ \E i \in 1..Len(file.text) : file.text[i].k \in { "bad", "word" }
  \/ file.text = << >>
  \/ file.text[1] # TObjOpen
  \/ file.text[Len(file.text)] # TObjClose
  \/ Len(file.text) % 2 # 0

\* what the reading functions answer when there is no record
AnswerWithoutRecord(op) ==
  CASE op = "read_status" -> Returns(PyNone)
    [] op = "is_agent_stale" -> Returns(PyBool(TRUE))
    [] op = "is_agent_exited" -> Returns(PyBool(FALSE))
    [] op = "get_agent_pid" -> Returns(PyNone)

\* C17: on a status file that is missing, truncated or otherwise corrupt
\* (valid JSON that is not a record included) no function raises:
\* read_status returns absent, is_agent_stale true, is_agent_exited false,
\* get_agent_pid absent, and update_status starts from the empty record and
\* writes a well-formed record
C17_CorruptStatusReadsAbsent ==
  /\ (rd.done /\ HoldsNoRecord(rd.file)) =>
       rd.result = AnswerWithoutRecord(rd.op)
  /\ (lastUpdate.done /\ HoldsNoRecord(lastUpdate.before)) =>
       /\ lastUpdate.exc = "none"
       /\ ~HoldsNoRecord(fs[status_path])
       /\ PyDict(RecordIn(fs[status_path]))
            = build_data(PyDict(EmptyDict), lastUpdate.call, lastUpdate.pid,
                         InstantOf(RecordIn(fs[status_path]), "last_update")).value

\* ------------------------------------------------------------------------
\* Session store (utils/sessions.py)
\* ------------------------------------------------------------------------
\* lines 17-27: the fields of SessionInfo
SessionFields ==
  { "session_id", "agent_name", "agent_type", "prefix", "last_run",
    "num_turns", "total_cost_usd" }

\* line 27: total_cost_usd: float | None = None
FieldDefaults == [k \in { "total_cost_usd" } |-> PyNone]

\* an instance of SessionInfo; bool() of an instance is true
PyObj(f) ==
  [t |-> "SessionInfo", s |-> "", n |-> 0, d |-> f, items |-> << >>]

\* SessionInfo(**data): the generated constructor takes every field without
\* a default, takes no other name, and checks no type
SessionInfo(data) ==
  IF data.t # "dict" THEN Raises("TypeError")
  ELSE IF \/ ~((SessionFields \ DOMAIN FieldDefaults) \subseteq DOMAIN data.d)
          \/ ~(DOMAIN data.d \subseteq SessionFields)
  THEN Raises("TypeError")
  ELSE Returns(PyObj(Merge(FieldDefaults, data.d)))

\* dataclasses.asdict(info)
asdict(info) == info.d

\* line 92: except (json.JSONDecodeError, TypeError, KeyError)
GetSessionCaught == { "JSONDecodeError", "TypeError", "KeyError" }

\* lines 74-96: get_session(agent_type, agent_name) on the file at the
\* session path
get_session(file) ==
  IF ~file.exists THEN Returns(PyNone)
  ELSE LET data == load_file(file)
           info == IF data.exc = "none" THEN SessionInfo(data.value) ELSE data
       IN IF info.exc \in GetSessionCaught THEN Returns(PyNone) ELSE info

\* a variant that opens the file for appending
dump_to_Append(file, data) == FileOf(file.text \o json_dumps(data))

\* lines 110-112: with open(path, "w") as f: json.dump(asdict(info), f)
dump_to(file, data) == FileOf(json_dumps(data))

\* lines 98-112: save_session(info); open() raises when the permissions of
\* the file deny writing
save_session_file(file, info) ==
  IF file.exists /\ ~file.readable
  THEN [out |-> Raises("OSError"), file |-> file]
  ELSE [out |-> Returns(PyNone), file |-> dump_to(file, asdict(info))]

\* a variant that does not test whether the file exists
delete_session_Blind(file) == [out |-> Returns(PyBool(TRUE)), file |-> NoFile]

\* lines 114-129: delete_session(agent_type, agent_name)
delete_session(file) ==
  IF file.exists THEN [out |-> Returns(PyBool(TRUE)), file |-> NoFile]
  ELSE [out |-> Returns(PyBool(FALSE)), file |-> file]

\* lines 131-159: create_session_info(session_id, agent_type, agent_name,
\* num_turns, total_cost_usd) at the instant time
create_session_info(session_id, num_turns, total_cost_usd, time) ==
  PyObj([k \in SessionFields |->
    CASE k = "session_id" -> PyStr(session_id)
      [] k = "agent_name" -> PyStr("manager")
      [] k = "agent_type" -> PyStr("manager")
      [] k = "prefix" -> PyStr("manager-manager-demo")
      [] k = "last_run" -> PyStr(isoformat(time))
      [] k = "num_turns" -> PyInt(num_turns)
      [] OTHER -> total_cost_usd])

\* the records the agent saves: after one turn or after two, with or without
\* a reported cost (a number of cents stands for the float)
SessionInfos ==
  { create_session_info(id, turns, cost, turns)
      : id \in SessionIds, turns \in { 1, 2 }, cost \in { PyNone, PyInt(5) } }

StoredInfo == create_session_info("s0", 1, PyInt(3), 0)

\* what the session path can hold when a process starts
SessionFiles ==
  LET ok == asdict(StoredInfo)
      without(k) == [j \in DOMAIN ok \ { k } |-> ok[j]]
      text == json_dumps(ok)
  IN { NoFile,
       FileOf(text),
       FileOf(json_dumps(without("total_cost_usd"))),
       \* cut short, empty, not JSON, not UTF-8
       FileOf(SubSeq(text, 1, 4)),
       FileOf(<< >>),
       FileOf(<< TWord >>),
       FileOf(<< TObjOpen, TKey("session_id"), TBadBytes, TObjClose >>),
       \* JSON that is no session record
       FileOf(<< TArrOpen, TVal(PyInt(1)), TArrClose >>),
       FileOf(<< TVal(PyNone) >>),
       FileOf(<< TVal(PyStr("s0")) >>),
       FileOf(json_dumps(EmptyDict)),
       FileOf(json_dumps(without("session_id"))),
       FileOf(json_dumps(Merge(ok, [k \in { "x" } |-> PyInt(1)]))),
       FileOf(json_dumps([ok EXCEPT !["session_id"] = PyNone])),
       FileOf(json_dumps([ok EXCEPT !["num_turns"] = PyStr("many")])),
       \* permissions deny reading and writing
       LockedFile(text) }

NoSessionCall ==
  [op |-> "none", after |-> "none", arg |-> PyNone, out |-> Returns(PyNone),
   before |-> NoFile]

NoRecord == PyNone

\* no save and no delete has returned
NoSessionLog == [last |-> "none", saved |-> NoRecord, earlier |-> NoRecord]

NoBoot == [pc |-> "idle"]

\* the other variables are idle in the specifications of the session store
SessionFrame ==
  UNCHANGED << runVars, histVars, tasksDir, teamDir, mgrResult, inferVars,
               statusVars, toolVars >>

SessionStart ==
  /\ RunIdle
  /\ tasksDir = [exists |-> FALSE, files |-> << >>]
  /\ teamDir = [exists |-> FALSE, files |-> << >>]
  /\ mgrResult = "none"
  /\ InferIdle
  /\ StatusIdle
  /\ sessStore \in SessionFiles
  /\ ToolsIdle
  /\ sessCall = NoSessionCall
  /\ sessLog = NoSessionLog

InitSession ==
  /\ SessionStart
  /\ boot = NoBoot

\* a caller gets the session of the identity
StoreGet ==
  /\ sessCall' = [op |-> "get", after |-> sessCall.op, arg |-> PyNone,
                  out |-> get_session(sessStore), before |-> sessStore]
  /\ UNCHANGED << sessStore, sessLog, boot >>
  /\ SessionFrame

\* the agent saves the session after a turn
StoreSave(info) ==
  LET done == save_session_file(sessStore, info) IN
    /\ sessStore' = done.file
    /\ sessCall' = [op |-> "save", after |-> sessCall.op, arg |-> info,
                    out |-> done.out, before |-> sessStore]
    /\ sessLog' = IF done.out.exc = "none"
                  THEN [last |-> "save", saved |-> info,
                        earlier |-> sessLog.saved]
                  ELSE sessLog
    /\ UNCHANGED boot
    /\ SessionFrame

\* a caller deletes the session of the identity
StoreDelete ==
  LET done == delete_session(sessStore) IN
    /\ sessStore' = done.file
    /\ sessCall' = [op |-> "delete", after |-> sessCall.op, arg |-> PyNone,
                    out |-> done.out, before |-> sessStore]
    /\ sessLog' = [sessLog EXCEPT !.last = "delete"]
    /\ UNCHANGED boot
    /\ SessionFrame

NextSession ==
  \/ StoreGet
  \/ \E info \in SessionInfos : StoreSave(info)
  \/ StoreDelete

SpecSession == InitSession /\ [][NextSession]_vars

\* the file holds a well-formed session record: decodable text of a JSON
\* object that has the fields of SessionInfo, each of its declared type
WellFormedRecord(file) ==
  LET data == load_file(file)
      f == data.value.d
      Typed(k, types) == k \in DOMAIN f /\ f[k].t \in types
  IN /\ file.exists
     /\ data.exc = "none"
     /\ data.value.t = "dict"
     /\ DOMAIN f \subseteq SessionFields
     /\ \A k \in { "session_id", "agent_name", "agent_type", "prefix",
                   "last_run" } : Typed(k, { "str" })
     /\ Typed("num_turns", { "int" })
     /\ "total_cost_usd" \in DOMAIN f =>
          f["total_cost_usd"].t \in { "none", "int" }

Absent == Returns(PyNone)

\* C16: get_session never raises, and for a missing file, a file cut short,
\* a file that is not valid JSON and a file of valid JSON that is no
\* well-formed session record it returns absent.
C16_GetSessionNeverRaises ==
  sessCall.op = "get" =>
    /\ sessCall.out.exc = "none"
    /\ ~WellFormedRecord(sessCall.before) => sessCall.out = Absent

\* C18: delete_session returns true exactly when a session file existed and
\* was removed: on a missing file it returns false and changes nothing, on an
\* existing one it returns true and the file is gone; a get that follows
\* returns absent and a second delete returns false.
C18_DeleteReportsRemoval ==
  /\ sessCall.op = "delete" =>
       /\ sessCall.out = Returns(PyBool(sessCall.before.exists))
       /\ ~sessStore.exists
       /\ ~sessCall.before.exists => sessStore = sessCall.before
       /\ sessCall.after = "delete" => sessCall.out = Returns(PyBool(FALSE))
  /\ sessCall.op = "get" /\ sessCall.after = "delete" => sessCall.out = Absent

\* an existing file was deleted, and a file was deleted twice in a row
C18_Witness ==
  /\ sessCall.op = "delete"
  /\ sessCall.after = "delete"
  /\ sessLog.saved # NoRecord
  /\ sessCall.out = Returns(PyBool(FALSE))

\* C19: after any sequence of saves and deletes get_session returns a record
\* equal in every field to the record of the last save when no delete
\* followed it, and absent when a delete came last; nothing of an earlier
\* record or of the earlier file survives a save.
C19_GetReturnsLastSave ==
  sessCall.op = "get" =>
    /\ sessLog.last = "save" => sessCall.out = Returns(sessLog.saved)
    /\ sessLog.last = "delete" => sessCall.out = Absent

\* a get after a save that replaced a record differing in every field that
\* varies
C19_Witness ==
  /\ sessCall.op = "get"
  /\ sessLog.last = "save"
  /\ sessLog.earlier # NoRecord
  /\ \A k \in { "session_id", "last_run", "num_turns", "total_cost_usd" } :
       sessLog.earlier.d[k] # sessLog.saved.d[k]
  /\ sessCall.out = Returns(sessLog.saved)

\* ------------------------------------------------------------------------
\* Resolution of the session at startup (utils/loop.py, Agent.__init__ and
\* _resolve_session; agents/manager.py, run_manager)
\* ------------------------------------------------------------------------
\* --resume and --new-session are mutually exclusive
\* (agents/manager.py lines 493-503)
SessionModes ==
  { [resume |-> TRUE, new_session |-> FALSE],
    [resume |-> FALSE, new_session |-> TRUE],
    [resume |-> FALSE, new_session |-> FALSE] }

\* the processes that resolve a session: an Agent under construction, or
\* run_manager
Callers == { "Agent", "run_manager" }

\* input("Continue previous session? [y/N]: ").strip().lower()
Responses == { "y", "n", "" }

\* loop.py lines 177-214, manager.py lines 262-285: what the policy decides
\* from the record found, the flags and the operator's answer: whether the
\* stored record is deleted, the session handle, and whether startup fails
resolve_session(existing, resume, new_session, response) ==
  IF ~Falsy(existing)
  THEN IF new_session
       THEN [delete |-> TRUE, session_id |-> PyNone, fail |-> FALSE]
       ELSE IF resume \/ response = "y"
       THEN [delete |-> FALSE, session_id |-> existing.d["session_id"],
             fail |-> FALSE]
       ELSE [delete |-> TRUE, session_id |-> PyNone, fail |-> FALSE]
  ELSE [delete |-> FALSE, session_id |-> PyNone, fail |-> resume]

\* loop.py line 210: raise ValueError; manager.py line 285: sys.exit(1)
FailureOf(caller) == IF caller = "Agent" THEN "ValueError" ELSE "SystemExit"

\* a process about to resolve its session
BootStart(caller, mode) ==
  [pc |-> "resolve", caller |-> caller, resume |-> mode.resume,
   new_session |-> mode.new_session, existing |-> Absent,
   session_id |-> PyNone, started |-> FALSE, options_resume |-> PyNone,
   exc |-> "none", exit |-> 0, prompts |-> 0, iterations |-> 0]

InitStartup ==
  /\ SessionStart
  /\ boot \in { BootStart(caller, mode) :
                  caller \in Callers, mode \in SessionModes }

\* loop.py lines 172-214 (called at line 156), manager.py lines 260-285: the
\* stored session is read and the policy applied; an exception of get_session
\* and the failure of the policy end the process with a nonzero exit code
ResolveSession(response) ==
  LET existing == get_session(sessStore)
      plan == resolve_session(existing.value, boot.resume, boot.new_session,
                              response)
      gone == delete_session(sessStore)
  IN /\ boot.pc = "resolve"
     /\ IF existing.exc # "none"
        THEN /\ boot' = [boot EXCEPT !.pc = "exited", !.existing = existing,
                                     !.exc = existing.exc, !.exit = 1]
             /\ UNCHANGED << sessStore, sessLog >>
        ELSE IF plan.fail
        THEN /\ boot' = [boot EXCEPT !.pc = "exited", !.existing = existing,
                                     !.exc = FailureOf(boot.caller),
                                     !.exit = 1]
             /\ UNCHANGED << sessStore, sessLog >>
        ELSE /\ boot' = [boot EXCEPT !.pc = "resolved",
                                     !.existing = existing,
                                     !.session_id = plan.session_id]
             /\ sessStore' = IF plan.delete THEN gone.file ELSE sessStore
             /\ sessLog' = IF plan.delete
                           THEN [sessLog EXCEPT !.last = "delete"]
                           ELSE sessLog
     /\ UNCHANGED sessCall
     /\ SessionFrame

\* loop.py lines 494-503, manager.py lines 323-335:
\* ClaudeSDKClient(ClaudeAgentOptions(resume=session_id, ...))
StartEngine ==
  /\ boot.pc = "resolved"
  /\ boot' = [boot EXCEPT !.pc = "query", !.started = TRUE,
                          !.options_resume = boot.session_id]
  /\ UNCHANGED << sessStore, sessCall, sessLog >>
  /\ SessionFrame

\* loop.py line 506, manager.py line 337: await client.query(initial prompt)
FirstPrompt ==
  /\ boot.pc = "query"
  /\ boot' = [boot EXCEPT !.pc = "loop", !.prompts = 1]
  /\ UNCHANGED << sessStore, sessCall, sessLog >>
  /\ SessionFrame

\* loop.py lines 508-509, manager.py lines 339-340: the first iteration
FirstIteration ==
  /\ boot.pc = "loop"
  /\ boot' = [boot EXCEPT !.pc = "running", !.iterations = 1]
  /\ UNCHANGED << sessStore, sessCall, sessLog >>
  /\ SessionFrame

\* a get of the identity once the engine has been started
GetAfterStartup ==
  /\ boot.started
  /\ StoreGet

NextStartup ==
  \/ \E response \in Responses : ResolveSession(response)
  \/ StartEngine
  \/ FirstPrompt
  \/ FirstIteration
  \/ GetAfterStartup

SpecStartup == InitStartup /\ [][NextStartup]_vars

\* get_session found a record when the process started
FoundRecord == boot.existing.exc = "none" /\ ~Falsy(boot.existing.value)

\* C15: in resume mode with no stored record startup fails with a nonzero
\* exit code before any prompt and any iteration; in resume mode with a
\* stored record the engine is started with the session_id of that record;
\* in new-session mode a stored record is deleted first and the engine is
\* started with no session handle, so that a get after startup is absent.
C15_ResumePolicy ==
  boot.pc # "resolve" =>
    /\ boot.resume /\ ~FoundRecord =>
         /\ boot.pc = "exited" /\ boot.exit # 0
         /\ ~boot.started /\ boot.prompts = 0 /\ boot.iterations = 0
    /\ boot.resume /\ FoundRecord =>
         /\ boot.pc # "exited"
         /\ boot.session_id = boot.existing.value.d["session_id"]
         /\ boot.started => boot.options_resume = boot.session_id
    /\ boot.new_session =>
         /\ boot.pc # "exited"
         /\ FoundRecord => ~sessStore.exists
         /\ boot.session_id = PyNone
         /\ boot.started => boot.options_resume = PyNone
         /\ sessCall.op = "get" => sessCall.out = Absent

\* ========================================================================
\* Paths of the session file and of the status file of an agent identity
\* (utils/sessions.py lines 45-72, utils/status.py lines 19-55)
\* ========================================================================

\* sessions.py lines 45-57: SessionManager._sanitize_name
SessionManager_sanitize_name(name) == strip_dash(sub_unsafe(lower(name)))

\* sessions.py lines 60-72: SessionManager(prefix)._get_session_path(
\* agent_type, agent_name), below ~/.softfoundry
get_session_path(prefix, agent_type, agent_name) ==
  "sessions/" \o agent_type \o "-"
    \o Join(SessionManager_sanitize_name(agent_name)) \o "-" \o prefix
    \o ".json"

\* status.py lines 19-29
sanitize_name(name) == strip_dash(sub_unsafe(lower(name)))

\* status.py lines 32-55: get_status_path(prefix, agent_type, agent_name);
\* the empty name stands for None as well
get_status_path(prefix, agent_type, agent_name) ==
  "status/" \o prefix \o "/" \o
    (IF /\ agent_name # << >>
        /\ Join(agent_name) # agent_type
        /\ Join(agent_name) # "default"
     THEN agent_type \o "-" \o Join(sanitize_name(agent_name)) \o ".status"
     ELSE agent_type \o ".status")

\* project names used as prefix
Prefixes == { "demo", "web", "b-demo" }

AgentTypes == { "manager", "programmer", "reviewer" }

\* agent names: differing in case and punctuation only, one ending like the
\* start of a prefix, the default names, and no name
PathNames ==
  { << "A", "l", "i", "c", "e", " ", "C", "h", "e", "n" >>,
    << "a", "l", "i", "c", "e", "-", "c", "h", "e", "n" >>,
    << "a" >>,
    << "a", " ", "b" >>,
    << "d", "e", "f", "a", "u", "l", "t" >>,
    << "m", "a", "n", "a", "g", "e", "r" >>,
    << >> }

Identities ==
  [prefix : Prefixes, agent_type : AgentTypes, agent_name : PathNames]

NoPaths == [session |-> "", status |-> ""]

PathsOf(id) ==
  [session |-> get_session_path(id.prefix, id.agent_type, id.agent_name),
   status |-> get_status_path(id.prefix, id.agent_type, id.agent_name)]

\* the other variables are idle in the specifications of this part
ToolsStart ==
  /\ RunIdle
  /\ tasksDir = [exists |-> FALSE, files |-> << >>]
  /\ teamDir = [exists |-> FALSE, files |-> << >>]
  /\ mgrResult = "none"
  /\ InferIdle
  /\ StatusIdle
  /\ SessionIdle

ToolsFrame ==
  UNCHANGED << runVars, histVars, tasksDir, teamDir, mgrResult, inferVars,
               statusVars, sessionVars >>

\* two agents are about to be started
InitPaths ==
  /\ ToolsStart
  /\ pathCall \in [done : { FALSE }, a : Identities, b : Identities,
                   pa : { NoPaths }, pb : { NoPaths }]
  /\ fieldCall = << >>
  /\ stores = << >>
  /\ saver = << >>
  /\ poll = << >>
  /\ worker = << >>

\* both agents compute their session path and their status path
MapPaths ==
  /\ ~pathCall.done
  /\ pathCall' = [pathCall EXCEPT !.done = TRUE, !.pa = PathsOf(pathCall.a),
                                  !.pb = PathsOf(pathCall.b)]
  /\ UNCHANGED << fieldCall, stores, saver, poll, worker >>
  /\ ToolsFrame

NextPaths == MapPaths

SpecPaths == InitPaths /\ [][NextPaths]_vars

\* C21: two identities that differ in prefix, agent type or agent name are
\* never mapped to the same session path nor to the same status path, and
\* one identity is always mapped to the same paths.
C21_PathsCollisionFree ==
  pathCall.done =>
    /\ pathCall.a # pathCall.b =>
         /\ pathCall.pa.session # pathCall.pb.session
         /\ pathCall.pa.status # pathCall.pb.status
    /\ pathCall.a = pathCall.b => pathCall.pa = pathCall.pb

\* ------------------------------------------------------------------------
\* A reader concurrent with the steps of save_session
\* (utils/sessions.py lines 98-112)
\* ------------------------------------------------------------------------
\* the records saved by the writer
RaceInfos ==
  { create_session_info("s1", 1, PyNone, 1),
    create_session_info("s2", 2, PyInt(5), 2) }

SaverIdle == [pc |-> "idle", text |-> << >>]

\* the frame of the writer's steps
SaverFrame ==
  UNCHANGED << runVars, histVars, tasksDir, teamDir, mgrResult, inferVars,
               statusVars, boot, pathCall, fieldCall, stores,
               poll, worker >>

\* a record is stored and no save is in progress
InitSessionRace ==
  /\ RunIdle
  /\ tasksDir = [exists |-> FALSE, files |-> << >>]
  /\ teamDir = [exists |-> FALSE, files |-> << >>]
  /\ mgrResult = "none"
  /\ InferIdle
  /\ StatusIdle
  /\ sessStore = FileOf(json_dumps(asdict(StoredInfo)))
  /\ sessCall = NoSessionCall
  /\ sessLog = [NoSessionLog EXCEPT !.saved = StoredInfo]
  /\ boot = NoBoot
  /\ pathCall = << >>
  /\ fieldCall = << >>
  /\ stores = << >>
  /\ saver = SaverIdle
  /\ poll = << >>
  /\ worker = << >>

\* line 110: the agent, restarted if it had crashed, saves a record;
\* open(path, "w") truncates the file
SaveOpen(info) ==
  /\ saver.pc \in { "idle", "crashed" }
  /\ sessStore' = FileOf(<< >>)
  /\ saver' = [pc |-> "opened", text |-> json_dumps(asdict(info))]
  /\ sessLog' = [sessLog EXCEPT !.last = "save", !.earlier = sessLog.saved,
                                !.saved = info]
  /\ UNCHANGED sessCall
  /\ SaverFrame

\* line 112: json.dump writes the text piece by piece; a first part of it
\* reaches the file
SaveWritePart ==
  /\ saver.pc = "opened"
  /\ sessStore' = FileOf(SubSeq(saver.text, 1, Len(saver.text) \div 2))
  /\ saver' = [saver EXCEPT !.pc = "part"]
  /\ UNCHANGED << sessCall, sessLog >>
  /\ SaverFrame

\* lines 111-112: the rest is written and the file closed
SaveClose ==
  /\ saver.pc \in { "opened", "part" }
  /\ sessStore' = FileOf(saver.text)
  /\ saver' = SaverIdle
  /\ UNCHANGED << sessCall, sessLog >>
  /\ SaverFrame

\* the writing process is killed inside save_session
SaverCrash ==
  /\ saver.pc \in { "opened", "part" }
  /\ saver' = [saver EXCEPT !.pc = "crashed"]
  /\ UNCHANGED << sessStore, sessCall, sessLog >>
  /\ SaverFrame

\* lines 74-96: another process, or the agent restarted, gets the session
ReadSession ==
  /\ sessCall' = [op |-> "get", after |-> saver.pc, arg |-> PyNone,
                  out |-> get_session(sessStore), before |-> sessStore]
  /\ UNCHANGED << sessStore, sessLog, boot, saver, pathCall, fieldCall,
                  stores, poll, worker >>
  /\ UNCHANGED << runVars, histVars, tasksDir, teamDir, mgrResult, inferVars,
                  statusVars >>

NextSessionRace ==
  \/ \E info \in RaceInfos : SaveOpen(info)
  \/ SaveWritePart
  \/ SaveClose
  \/ SaverCrash
  \/ ReadSession

SpecSessionRace == InitSessionRace /\ [][NextSessionRace]_vars

\* C22: a get_session that runs while save_session is in progress, or after
\* the writer crashed inside save_session, returns the complete record saved
\* before or the complete new record; the stored record is never lost and
\* never seen partially written.
C22_SessionWritesAtomic ==
  sessCall.op = "get" =>
    \/ sessCall.out = Returns(sessLog.saved)
    \/ sessCall.out = Returns(sessLog.earlier) /\ sessLog.earlier # NoRecord
    \/ sessCall.out = Returns(StoredInfo) /\ sessLog.last = "none"

\* ========================================================================
\* The choice of the next prompt (Agent.run, lines 556-584)
\* ========================================================================

\* get_idle_interval() is configured and positive
IdleConfigured == ~idle_interval.none /\ idle_interval.secs > 0

\* C23: after a turn that neither completes nor is followed by a shutdown
\* the next prompt follows the verdict of the classifier: when input is
\* needed the console is read again while the input is empty and exactly the
\* first non-empty input is submitted, never the continuation prompt;
\* otherwise the continuation prompt is submitted, after the idle sleep when
\* an interval is configured and positive. One prompt is submitted per turn.
C23_NextPromptFollowsVerdict ==
  /\ turnLog.verdict = "none" => turnLog = NoTurn
  /\ turnLog.verdict = "input" =>
       /\ ~turnLog.slept
       /\ turnLog.sent \in { "none", turnLog.user_input }
       /\ pc \in { "query_user", "loop_head" } => turnLog.user_input # ""
       /\ turnLog.user_input = "" => turnLog.sent = "none" /\ pc # "loop_head"
  /\ turnLog.verdict = "continue" =>
       /\ turnLog.sent \in { "none", "continuation" }
       /\ turnLog.user_input = "" /\ ~turnLog.odd /\ emptyReads = 0
       /\ pc = "query_cont" \/ turnLog.sent = "continuation" =>
            (turnLog.slept <=> IdleConfigured)
  /\ pc = "loop_head" =>
       /\ promptsSubmitted = turnsStarted + 1
       /\ turnLog.verdict # "none" =>
            /\ turnLog.sent # "none"
            /\ lastPrompt = IF turnLog.verdict = "input" THEN "user"
                            ELSE "continuation"

\* the console returned empty input twice before the input that was submitted
C23_Witness ==
  /\ pc = "loop_head"
  /\ turnLog.verdict = "input"
  /\ emptyReads = MaxEmptyReads
  /\ turnLog.sent = "yes"
  /\ lastPrompt = "user"

\* ========================================================================
\* Termination of Agent.run (lines 508-588) when nothing interrupts it
\* ========================================================================

\* the steps of the coroutine between two awaits on the outside world
RunStep ==
  \/ Setup
  \/ QueryInit
  \/ LoopHead
  \/ SaveSession
  \/ CheckComplete
  \/ StreamEnd
  \/ AfterStream
  \/ \E answer \in BOOLEAN : Classify(answer)
  \/ QueryUser
  \/ QueryCont
  \/ AfterLoop

\* lines 522, 530: the engine delivers the result event of the turn
EngineResult ==
  \E sid \in SessionIds, complete \in BOOLEAN : RecvResult(sid, complete)

\* line 563: the console read returns, with text or empty
ConsoleRead == \E user_input \in ConsoleInputs : ReadInput(user_input)

NextLive ==
  \/ RunStep
  \/ \E text \in Texts : RecvAssistant(text)
  \/ EngineResult
  \/ ConsoleRead
  \/ SleepDone

\* run keeps executing, every engine call delivers its result event, every
\* console read returns and every idle sleep ends
Fairness ==
  /\ WF_vars(RunStep)
  /\ WF_vars(EngineResult)
  /\ WF_vars(ConsoleRead)
  /\ WF_vars(SleepDone)

SpecLive == Init /\ [][NextLive]_vars /\ Fairness

\* C24: when every engine call delivers its result event, every console read
\* returns, possibly empty, and every idle sleep ends, run eventually stops,
\* after at most max_iterations turns.
C24_RunTerminates == <>(pc = "done" /\ turnsStarted <= max_iterations)

\* ========================================================================
\* What the loop records when a turn completes (Agent.run, lines 530-544)
\* ========================================================================

\* the result event of the current turn has been processed
TurnCompleted == pc = "stream" /\ gotResult

\* C27 as stated: on completion of every turn both the session store and the
\* status record have been updated by the loop.
C27_Original ==
  TurnCompleted =>
    /\ sessionFile = save_session(message.session_id)
    /\ status # StartingStatus

\* C27: on receipt of every result event the loop saves the session; it
\* writes the status record only when the completion predicate holds, and a
\* turn that does not complete leaves the status record as it was.
C27_SessionSavedStatusOnCompletion ==
  TurnCompleted =>
    /\ sessionFile = save_session(message.session_id)
    /\ sessionSaves = resultsReceived
    /\ status = IF message.complete THEN on_complete ELSE StartingStatus

\* a second turn has completed without completing the work
C27_Witness ==
  /\ TurnCompleted
  /\ turnsStarted = 2
  /\ ~message.complete
  /\ sessionSaves = 2
  /\ status = StartingStatus

\* ------------------------------------------------------------------------
\* Staleness (utils/status.py, is_agent_stale)
\* ------------------------------------------------------------------------
\* the record of the file has a last_update that is the text of an instant
UsableLastUpdate(file) ==
  /\ ~HoldsNoRecord(file)
  /\ "last_update" \in DOMAIN RecordIn(file)
  /\ RecordIn(file)["last_update"].t = "str"
  /\ \E time \in Times : isoformat(time) = RecordIn(file)["last_update"].s

\* C28: is_agent_stale(path, threshold) is true exactly when the record is
\* absent or unreadable, has no usable last_update, or the age of last_update
\* is strictly greater than the threshold; an age up to the threshold is
\* not stale.
C28_StaleExactlyWhenOldOrAbsent ==
  (rd.done /\ rd.op = "is_agent_stale") =>
    rd.result =
      Returns(PyBool(
        \/ ~UsableLastUpdate(rd.file)
        \/ rd.time - InstantOf(RecordIn(rd.file), "last_update")
             > rd.threshold))

\* ---------------------------------------------------------------------------
\* Field lookup in a document (utils/state.py, parse_status_field). The
\* content of a document is the sequence of its lines, joined by newlines;
\* a line is a sequence of characters.
\* ---------------------------------------------------------------------------

MaxLines == 3

\* calls of one function that are counted
MaxCalls == 2

\* \s* within a line
IsBlankLine(l) == \A i \in 1..Len(l) : l[i] = " "

\* line 65:  ##\s*FIELD\s*  reaching the end of the line, under IGNORECASE;
\* re.search may start at any character of the line
IsHeadingFor(l, field) ==
  \E p \in 1..(Len(l) - 1) :
    /\ l[p] = "#" /\ l[p + 1] = "#"
    /\ \E q \in (p + 2)..(Len(l) + 1) :
         /\ IsBlankLine(SubSeq(l, p + 2, q - 1))
         /\ q + Len(field) - 1 <= Len(l)
         /\ lower(SubSeq(l, q, q + Len(field) - 1)) = lower(field)
         /\ IsBlankLine(SubSeq(l, q + Len(field), Len(l)))

\* line 65:  <!--.*?-->\s*  from the start of a line to its end
IsCommentLine(l) ==
  /\ Len(l) >= 7
  /\ SubSeq(l, 1, 4) = << "<", "!", "-", "-" >>
  /\ \E i \in 5..(Len(l) - 2) :
       /\ SubSeq(l, i, i + 2) = << "-", "-", ">" >>
       /\ IsBlankLine(SubSeq(l, i + 3, Len(l)))

\* line 65:  ([^\n#]+)  from the start of a line: what stands before the
\* first "#"; empty when the pattern does not match there
ValueGroup(l) ==
  IF \E i \in 1..Len(l) : l[i] = "#"
  THEN SubSeq(l, 1, (CHOOSE i \in 1..Len(l) :
                       /\ l[i] = "#"
                       /\ \A j \in 1..(i - 1) : l[j] # "#") - 1)
  ELSE l

\* str.strip()
strip(s) ==
  IF IsBlankLine(s) THEN << >>
  ELSE LET a == CHOOSE i \in 1..Len(s) :
                  s[i] # " " /\ \A j \in 1..(i - 1) : s[j] = " "
           b == CHOOSE i \in 1..Len(s) :
                  s[i] # " " /\ \A j \in (i + 1)..Len(s) : s[j] = " "
       IN SubSeq(s, a, b)

\* the first line from i on that \s* does not pass, Len(lines) + 1 at the end
FirstNonBlank(lines, i) ==
  IF \E j \in i..Len(lines) : ~IsBlankLine(lines[j])
  THEN CHOOSE j \in i..Len(lines) :
         /\ ~IsBlankLine(lines[j])
         /\ \A k \in i..(j - 1) : IsBlankLine(lines[k])
  ELSE Len(lines) + 1

NoMatch == [matched |-> FALSE, group |-> << >>]

\* \s*\n+ followed by the value group: the group is tried at the start of
\* line `at`, then, giving newlines back, at the lines before it down to lo
GroupFrom(lines, lo, at) ==
  LET ok == { k \in lo..at : k <= Len(lines) /\ ValueGroup(lines[k]) # << >> }
  IN IF ok = { } THEN NoMatch
     ELSE [matched |-> TRUE,
           group |-> ValueGroup(lines[CHOOSE k \in ok : \A m \in ok : m <= k])]

\* line 65: the pattern after the heading of line i: the optional comment
\* is tried first, then the value directly
MatchAfter(lines, i) ==
  LET L == FirstNonBlank(lines, i + 1)
      direct == GroupFrom(lines, i + 1, L)
  IN IF L <= Len(lines) /\ IsCommentLine(lines[L])
     THEN LET skipped ==
                GroupFrom(lines, L + 1, FirstNonBlank(lines, L + 1))
          IN IF skipped.matched THEN skipped ELSE direct
     ELSE direct

\* lines 64-78: parse_status_field(content, field) on the text of a
\* document: re.search takes the first place where the whole pattern
\* matches; the group is stripped; a brace-wrapped value is a placeholder
parse_field(content, field) ==
  LET hits == { i \in 1..Len(content) :
                  /\ IsHeadingFor(content[i], field)
                  /\ MatchAfter(content, i).matched }
  IN IF hits = { } THEN None
     ELSE LET i == CHOOSE k \in hits : \A m \in hits : k <= m
              value == strip(MatchAfter(content, i).group)
          IN IF /\ Len(value) > 0
                /\ value[1] = "{"
                /\ value[Len(value)] = "}"
             THEN None
             ELSE [none |-> FALSE, value |-> value]

\* lines 143-154: get_assigned_task on the member document
get_assigned_task(file) ==
  IF ~file.present THEN None
  ELSE IF ~file.readable THEN None
  ELSE LET task == parse_field(file.content, << "A", "s", "s", "i", "g", "n",
     "e", "d", " ", "T", "a", "s", "k" >>) IN
         IF /\ ~task.none
            /\ task.value # << >>
            /\ lower(task.value) \notin
                 { << "n", "o", "n", "e" >>, << "u", "n", "a", "s", "s", "i",
                    "g", "n", "e", "d" >>, << "n", "/", "a" >>, << "-" >> }
         THEN task
         ELSE None

\* the lines documents are made of: headings of two levels and cases,
\* empty and blank lines, a comment, and values
DocLines ==
  { << "#", "#", " ", "S", "t", "a", "t", "u", "s" >>,
    << "#", "#", "#", " ", "s", "t", "a", "t", "u", "s", " " >>,
    << "#", "#", " ", "A", "s", "s", "i", "g", "n", "e", "d", " ", "T", "a",
       "s", "k" >>,
    << >>,
    << " ", " " >>,
    << "<", "!", "-", "-", " ", "h", "i", "n", "t", " ", "-", "-", ">" >>,
    << "W", "O", "R", "K", "I", "N", "G" >>,
    << "t", "a", "s", "k", "-", "0", "0", "1", ".", "m", "d" >>,
    << "f", "i", "x", " ", "#", "1", "2" >>,
    << "{", "s", "t", "a", "t", "u", "s", "}" >>,
    << "N", "/", "A" >> }

Contents == UNION { [1..n -> DocLines] : n \in 0..MaxLines }

FieldNames == { << "S", "t", "a", "t", "u", "s" >>, << "A", "s", "s", "i",
   "g", "n", "e", "d", " ", "T", "a", "s", "k" >> }

\* a member document: absent, unreadable (read_text raises OSError), or text
MemberFiles ==
  { [present |-> FALSE, readable |-> FALSE, content |-> << >>],
    [present |-> TRUE, readable |-> FALSE, content |-> << >>] }
  \cup { [present |-> TRUE, readable |-> TRUE, content |-> c] :
           c \in Contents }

InitFields ==
  /\ ToolsStart
  /\ pathCall = << >>
  /\ fieldCall \in [file : MemberFiles, field : FieldNames,
                    parsed : { FALSE }, value : { None },
                    asked : { FALSE }, asks : { 0 }, task : { None }]
  /\ stores = << >>
  /\ saver = << >>
  /\ poll = << >>
  /\ worker = << >>

\* parse_status_field(content, field) is called on the text read
ParseField ==
  /\ fieldCall # << >>
  /\ fieldCall.file.present /\ fieldCall.file.readable
  /\ ~fieldCall.parsed
  /\ fieldCall' =
       [fieldCall EXCEPT !.parsed = TRUE,
                         !.value = parse_field(fieldCall.file.content,
                                               fieldCall.field)]
  /\ UNCHANGED << pathCall, stores, saver, poll, worker >>
  /\ ToolsFrame

\* get_assigned_task with a result that alternates between calls
GetAssignedTask_Alternating ==
  /\ fieldCall # << >>
  /\ fieldCall' =
       [fieldCall EXCEPT
          !.asked = TRUE,
          !.asks = IF @ < MaxCalls THEN @ + 1 ELSE @,
          !.task = IF fieldCall.asked /\ fieldCall.task.none
                   THEN [none |-> FALSE, value |-> << >>]
                   ELSE None]
  /\ UNCHANGED << pathCall, stores, saver, poll, worker >>
  /\ ToolsFrame

\* lines 131-154: get_assigned_task(planning_dir, agent_name) is called;
\* the calls are counted up to MaxCalls
GetAssignedTask ==
  /\ fieldCall # << >>
  /\ fieldCall' =
       [fieldCall EXCEPT !.asked = TRUE,
                         !.asks = IF @ < MaxCalls THEN @ + 1 ELSE @,
                         !.task = get_assigned_task(fieldCall.file)]
  /\ UNCHANGED << pathCall, stores, saver, poll, worker >>
  /\ ToolsFrame

NextFields == ParseField \/ GetAssignedTask

SpecFields == InitFields /\ [][NextFields]_vars

\* What a reader of the document takes the field to be: a heading is a line
\* of "#" marks and a name; the value is the first line after the first
\* heading of that name which is neither blank nor a comment, and there is
\* none when that line is another heading or the document ends.
IsHeadingLine(l) == strip(l) # << >> /\ strip(l)[1] = "#"

HeadingName(l) ==
  LET s == strip(l)
      n == CHOOSE i \in 1..(Len(s) + 1) :
             /\ \A j \in 1..(i - 1) : s[j] = "#"
             /\ (i <= Len(s) => s[i] # "#")
  IN strip(SubSeq(s, n, Len(s)))

FieldOf(content, field) ==
  LET heads == { i \in 1..Len(content) :
                   /\ IsHeadingLine(content[i])
                   /\ lower(HeadingName(content[i])) = lower(field) }
  IN IF heads = { } THEN None
     ELSE LET h == CHOOSE k \in heads : \A m \in heads : k <= m
              after == { j \in (h + 1)..Len(content) :
                           /\ ~IsBlankLine(content[j])
                           /\ ~IsCommentLine(content[j]) }
          IN IF after = { } THEN None
             ELSE LET v == CHOOSE k \in after : \A m \in after : k <= m
                      value == strip(content[v])
                  IN IF IsHeadingLine(content[v]) THEN None
                     ELSE IF value[1] = "{" /\ value[Len(value)] = "}"
                     THEN None
                     ELSE [none |-> FALSE, value |-> value]

\* C26: parse_status_field returns the first non-empty line after the first
\* heading whose name matches the field case-insensitively, skipping the
\* comments in between, and returns absent when there is no such heading,
\* when no value follows it, and when the value is a brace-wrapped
\* placeholder.
C26_FieldLookup ==
  fieldCall # << >> /\ fieldCall.parsed =>
    fieldCall.value = FieldOf(fieldCall.file.content, fieldCall.field)

\* the values of the field that stand for "no task"
NoTaskWords == { << "n", "o", "n", "e" >>, << "u", "n", "a", "s", "s", "i",
   "g", "n", "e", "d" >>, << "n", "/", "a" >>, << "-" >> }

\* C29: get_assigned_task returns the "Assigned Task" field of the member
\* document, and absent when there is no member document, when the field is
\* absent or a placeholder, and when its value is "none", "unassigned",
\* "n/a" or "-" in any letter case.
C29_AssignedTask ==
  fieldCall # << >> /\ fieldCall.asked =>
    fieldCall.task =
      IF ~fieldCall.file.present \/ ~fieldCall.file.readable THEN None
      ELSE LET f == FieldOf(fieldCall.file.content, << "A", "s", "s", "i",
         "g", "n", "e", "d", " ", "T", "a", "s", "k" >>) IN
             IF f.none \/ lower(f.value) \in NoTaskWords THEN None ELSE f

\* ---------------------------------------------------------------------------
\* The four state-inference functions called, in any order and any number
\* of times, on one planning directory.
\* ---------------------------------------------------------------------------

\* member documents as text: an assigned task, no task, no field
InferContents ==
  { << << "#", "#", " ", "A", "s", "s", "i", "g", "n", "e", "d", " ", "T",
     "a", "s", "k" >>, << "t", "a", "s", "k", "-", "0", "0", "1", ".", "m",
        "d" >> >>,
    << << "#", "#", " ", "A", "s", "s", "i", "g", "n", "e", "d", " ", "T",
       "a", "s", "k" >>, << "N", "/", "A" >> >>,
    << << "#", "#", " ", "S", "t", "a", "t", "u", "s" >>, << "W", "O", "R",
       "K", "I", "N", "G" >> >> }

\* Status values of the documents of the planning directory
InferTaskTexts == { << "C", "O", "M", "P", "L", "E", "T", "E", "D" >>,
   << "p", "e", "n", "d", "i", "n", "g" >> }
InferMemberTexts == { << "W", "O", "R", "K", "I", "N", "G" >>, << "a", "v",
   "a", "i", "l", "a", "b", "l", "e" >> }

InferFiles ==
  { [present |-> FALSE, readable |-> FALSE, content |-> << >>],
    [present |-> TRUE, readable |-> FALSE, content |-> << >>] }
  \cup { [present |-> TRUE, readable |-> TRUE, content |-> c] :
           c \in InferContents }

NoFieldCall(file) ==
  [file |-> file, field |-> << "A", "s", "s", "i", "g", "n", "e", "d", " ",
     "T", "a", "s", "k" >>, parsed |-> FALSE,
   value |-> None, asked |-> FALSE, asks |-> 0, task |-> None]

InitInfer ==
  /\ RunIdle
  /\ mgrResult = "none"
  /\ InferIdle
  /\ StatusIdle
  /\ SessionIdle
  /\ pathCall = << >>
  /\ stores = << >>
  /\ saver = << >>
  /\ poll = << >>
  /\ worker = << >>
  /\ \/ /\ tasksDir \in Dirs(TaskNames, InferTaskTexts)
        /\ teamDir = NoDir(MemberNames)
        /\ fieldCall = NoFieldCall(CHOOSE f \in InferFiles : ~f.present)
     \/ /\ tasksDir = NoDir(TaskNames)
        /\ teamDir \in Dirs(MemberNames, InferMemberTexts)
        /\ fieldCall \in { NoFieldCall(f) : f \in InferFiles }

NextInfer ==
  \/ \E task_filename \in TaskNames : GetTaskState(task_filename)
  \/ \E agent_name \in AgentNames : GetProgrammerState(agent_name)
  \/ GetAssignedTask
  \/ GetManagerState

SpecInfer == InitInfer /\ [][NextInfer]_vars

\* every result returned so far is the one a call on the documents as they
\* are now returns
ResultsCurrent ==
  /\ taskResult.called =>
       taskResult.value = get_task_state(tasksDir, taskResult.arg)
  /\ mgrResult # "none" => mgrResult = get_manager_state(tasksDir, teamDir)
  /\ fieldCall.asked => fieldCall.task = get_assigned_task(fieldCall.file)

\* a call changes no document and, repeated, returns what it returned
DocumentsKept ==
  /\ tasksDir' = tasksDir
  /\ teamDir' = teamDir
  /\ fieldCall'.file = fieldCall.file
  /\ fieldCall.asked => fieldCall'.task = fieldCall.task
  /\ mgrResult # "none" => mgrResult' = mgrResult
  /\ taskResult.called /\ taskResult'.arg = taskResult.arg =>
       taskResult'.value = taskResult.value
  /\ progResult.called /\ progResult'.arg = progResult.arg =>
       progResult'.value = progResult.value

MaxAgents == 2

\* project names: one is the end of another after a "-"
Projects == { << "d", "e", "m", "o" >>, << "w", "e", "b" >>, << "b", "-",
   "d", "e", "m", "o" >> }

ClearAgentTypes == { << "p", "r", "o", "g", "r", "a", "m", "m", "e", "r" >>,
   << "r", "e", "v", "i", "e", "w", "e", "r" >> }

ClearAgentNames == { << "A", "l", "i", "c", "e" >>, << "b", "o", "b" >> }

\* sessions.py lines 70-72: the name of the session file
session_file_name(prefix, agent_type, agent_name) ==
  agent_type \o << "-" >> \o SessionManager_sanitize_name(agent_name)
    \o << "-" >> \o prefix \o << ".", "j", "s", "o", "n" >>

\* status.py lines 50-55: the name of the status file in the directory of
\* the project, for a name that is not a default
status_file_name(agent_type, agent_name) ==
  agent_type \o << "-" >> \o sanitize_name(agent_name) \o << ".", "s", "t",
     "a", "t", "u", "s" >>

\* str.endswith
EndsWith(s, suffix) ==
  /\ Len(suffix) <= Len(s)
  /\ SubSeq(s, Len(s) - Len(suffix) + 1, Len(s)) = suffix

\* line 75: the name matches the glob pattern  *-{project}.json
GlobsSession(name, project) ==
  EndsWith(name, << "-" >> \o project \o << ".", "j", "s", "o", "n" >>)

NoClear == [op |-> "none", project |-> << >>, dry_run |-> FALSE]

InitClear ==
  /\ ToolsStart
  /\ pathCall = << >>
  /\ fieldCall = << >>
  /\ saver = << >>
  /\ poll = << >>
  /\ worker = << >>
  /\ stores = [sessions |-> { }, status |-> { }, dirs |-> { },
               started |-> 0, call |-> NoClear]

\* an agent of a project starts: it saves its session file (overwriting a
\* file of that name) and writes its status file
StartAgent(project, agent_type, agent_name) ==
  /\ stores # << >>
  /\ stores.started < MaxAgents
  /\ LET name == session_file_name(project, agent_type, agent_name) IN
       stores' =
         [stores EXCEPT
            !.sessions = { f \in @ : f.name # name }
                           \cup { [name |-> name, project |-> project] },
            !.status = @ \cup
                         { [project |-> project,
                            name |-> status_file_name(agent_type,
                                                      agent_name)] },
            !.dirs = @ \cup { project },
            !.started = @ + 1,
            !.call = NoClear]
  /\ UNCHANGED << pathCall, fieldCall, saver, poll, worker >>
  /\ ToolsFrame

\* lines 64-109: clear_project(project, dry_run)
clear_project(st, project, dry_run) ==
  LET session_files == { f \in st.sessions : GlobsSession(f.name, project) }
      status_files == { s \in st.status : s.project = project }
  IN IF dry_run THEN st
     ELSE [st EXCEPT
             !.sessions = @ \ session_files,
             !.status = IF project \in st.dirs THEN @ \ status_files ELSE @,
             !.dirs = IF project \in st.dirs /\ status_files # { }
                      THEN @ \ { project } ELSE @]

\* the command  clear --project P [--dry-run]
ClearProject(project, dry_run) ==
  /\ stores # << >>
  /\ stores' =
       [clear_project(stores, project, dry_run) EXCEPT
          !.call = [op |-> "clear", project |-> project,
                    dry_run |-> dry_run]]
  /\ UNCHANGED << pathCall, fieldCall, saver, poll, worker >>
  /\ ToolsFrame

NextClear ==
  \/ \E project \in Projects, agent_type \in ClearAgentTypes,
        agent_name \in ClearAgentNames :
       StartAgent(project, agent_type, agent_name)
  \/ \E project \in Projects, dry_run \in BOOLEAN :
       ClearProject(project, dry_run)

SpecClear == InitClear /\ [][NextClear]_vars

\* what a clear_project call keeps: the files of the other projects, and
\* every file when dry_run is set
KeepsOtherProjects ==
  stores'.call.op = "clear" =>
    /\ \A f \in stores.sessions :
         f.project # stores'.call.project => f \in stores'.sessions
    /\ \A s \in stores.status :
         s.project # stores'.call.project => s \in stores'.status
    /\ stores'.call.dry_run =>
         /\ stores'.sessions = stores.sessions
         /\ stores'.status = stores.status
         /\ stores'.dirs = stores.dirs

\* C30: clear_project(p) removes the session files and the status files of
\* project p only: every session file and status file of a different
\* project is left unchanged, for every pair of project names, and with
\* dry_run set nothing is removed.
C30_ClearOnlyProject == [][KeepsOtherProjects]_vars

\* ========================================================================
\* The terminal status of a run and the reason it records
\* ========================================================================

\* once a terminal status is written, no later step of the run rewrites it
TerminalWrittenOnce == IsTerminal(status) => status' = status

\* run has returned after a shutdown observed at a loop boundary (lines
\* 512-514 or 552-554), not through an except clause
StoppedAtBoundary ==
  /\ pc = "done"
  /\ outcome = "returned"
  /\ cause = "shutdown"
  /\ pendingExc = NoExc

\* C31: in one run a terminal status is written at most once, and when the
\* loop stops because a graceful shutdown was observed at a loop boundary
\* the final status record's details are "User requested shutdown", at
\* every iteration number up to and including max_iterations.
C31_ShutdownReasonKept ==
  [][/\ TerminalWrittenOnce
     /\ StoppedAtBoundary' => status' = on_shutdown(TRUE)]_vars

\* ========================================================================
\* Prompts submitted and turns streamed
\* ========================================================================

\* run has ended, no SIGINT was delivered and no fault was raised
EndedUndisturbed == pc = "done" /\ sigCount = 0 /\ faulted = "none"

\* C32: in every run that is not ended by an interrupt or a fault, the
\* number of prompts submitted to the engine equals the number of turns
\* streamed, so a run that stops at max_iterations has submitted exactly
\* max_iterations prompts.
C32_EveryPromptStreamed ==
  EndedUndisturbed =>
    /\ promptsSubmitted = turnsStarted
    /\ cause = "max" => promptsSubmitted = max_iterations

\* ========================================================================
\* Cancellation of the idle sleep
\* ========================================================================

\* run has returned after the idle sleep of line 579 was cancelled
StoppedBySleepCancel ==
  pc = "done" /\ outcome = "returned" /\ cause = "cancelled"

\* C33: if the idle sleep between turns is cancelled, run stops without
\* submitting the continuation prompt and leaves a status record whose
\* status begins with "exited:", at every iteration number.
C33_SleepCancelLeavesTerminal ==
  StoppedBySleepCancel =>
    /\ turnLog.sent = "none"
    /\ IsTerminal(status)

\* ========================================================================
\* Completion and a pending graceful shutdown
\* ========================================================================

\* once the completion of the turn is recorded while the shutdown requested
\* during that turn is pending, no step of the run (a further signal and a
\* fault apart) writes the status or enters the shutdown handling
NoShutdownHandling ==
  (should_exit /\ shutdown_requested /\ firstSig.inflight
     /\ sigCount = 1 /\ sigCount' = 1 /\ faulted' = "none") =>
    /\ status' = status
    /\ pc' \notin { "after_loop", "exc_graceful", "exc_immediate" }

\* C37: completion takes precedence over a pending graceful shutdown: if a
\* first interrupt arrives during a turn whose result event satisfies the
\* completion predicate, run stops with status "exited:success" and the
\* shutdown handling (on_shutdown, "exited:terminated") is not executed.
C37_CompletionBeatsShutdown ==
  /\ [][NoShutdownHandling]_vars
  /\ [](OneSignalInFlight /\ message.complete =>
          /\ status = on_complete
          /\ cause = "success"
          /\ outcome = "returned"
          /\ pendingExc = NoExc)

\* the interrupt arrived before the result event of the turn in flight, the
\* result satisfied the completion predicate and run returned
C37_Witness ==
  /\ OneSignalInFlight
  /\ firstSig.results < resultsReceived
  /\ message.complete
  /\ shutdown_requested
  /\ status = on_complete
  /\ outcome = "returned"

\* ========================================================================
\* The two flags of the interrupt handler
\* ========================================================================

\* C39: in every reachable state of a run, shutdown_requested never returns
\* from true to false, and query_running is true only while the response
\* stream of a turn is being consumed: it is false again as soon as the
\* stream ends, whether by its result event, by a fault or by an
\* immediate-exit interrupt.
C39_InterruptFlags ==
  /\ [][shutdown_requested => shutdown_requested']_vars
  /\ [](query_running => pc \in StreamPcs)

\* a shutdown was requested during a turn and the stream of that turn was
\* then ended by a fault: the request stands, no turn is in flight
C39_Witness ==
  /\ pc = "done"
  /\ firstSig.inflight
  /\ faulted # "none"
  /\ resultsReceived < turnsStarted
  /\ shutdown_requested
  /\ ~query_running

\* ========================================================================
\* Status values naming several states
\* ========================================================================

\* words joined into one Status value
MaxWords == 3

\* words of member documents and of task documents, in mixed case; the last
\* of each is no keyword
MemberWords == { << "W", "o", "r", "k", "i", "n", "g" >>, << "A", "S", "S",
   "I", "G", "N", "E", "D" >>, << "a", "v", "a", "i", "l", "a", "b", "l",
      "e" >>, << "i", "d", "l", "e" >> }
TaskWords == { << "C", "o", "m", "p", "l", "e", "t", "e", "d" >>, << "i",
   "n", " ", "p", "r", "o", "g", "r", "e", "s", "s" >>, << "I", "N", "_",
      "P", "R", "O", "G", "R", "E", "S", "S" >>, << "o", "p", "e", "n" >> }

\* the words, separated by commas
RECURSIVE JoinWords(_)
JoinWords(ws) ==
  IF Len(ws) = 0 THEN << >>
  ELSE IF Len(ws) = 1 THEN ws[1]
  ELSE ws[1] \o << "," >> \o JoinWords(Tail(ws))

\* the Status values made of up to MaxWords different words, in every order
Phrases(words) ==
  { JoinWords(ws) :
      ws \in UNION { { s \in [1..n -> words] :
                         \A i, j \in 1..n : i # j => s[i] # s[j] } :
                     n \in 1..MaxWords } }

\* a collection holding one readable document with the given Status value
OneDoc(names, name, text) ==
  [exists |-> TRUE,
   files |-> [n \in names |->
                IF n = name
                THEN [present |-> TRUE, readable |-> TRUE,
                      hasStatus |-> TRUE, statusText |-> text]
                ELSE AbsentFile]]

InitPrecedence ==
  /\ RunIdle
  /\ mgrResult = "none"
  /\ InferIdle
  /\ StoresIdle
  /\ \/ /\ tasksDir = NoDir(TaskNames)
        /\ \E text \in Phrases(MemberWords) :
             teamDir = OneDoc(MemberNames, "alice-chen.md", text)
     \/ /\ teamDir = NoDir(MemberNames)
        /\ \E text \in Phrases(TaskWords) :
             tasksDir = OneDoc(TaskNames, "task-001.md", text)

SpecPrecedence == InitPrecedence /\ [][NextClassify]_vars

\* the words of a Status value, lower-cased
RECURSIVE Split(_)
Split(text) ==
  IF \E i \in 1..Len(text) : text[i] = ","
  THEN LET i == CHOOSE k \in 1..Len(text) :
                  text[k] = "," /\ \A j \in 1..(k - 1) : text[j] # ","
       IN { lower(SubSeq(text, 1, i - 1)) }
            \cup Split(SubSeq(text, i + 1, Len(text)))
  ELSE { lower(text) }

\* the state of highest precedence among the words of a member's value
MemberPrecedence(text) ==
  IF kwWorking \in Split(text) THEN "WORKING"
  ELSE IF kwAssigned \in Split(text) THEN "ASSIGNED"
  ELSE "AVAILABLE"

\* the state of highest precedence among the words of a task's value
TaskPrecedence(text) ==
  IF kwCompleted \in Split(text) THEN "COMPLETED"
  ELSE IF kwInProgressU \in Split(text) \/ kwInProgressS \in Split(text)
  THEN "IN_PROGRESS"
  ELSE "PENDING"

\* C36: when a Status value holds more than one recognized keyword, the
\* classification follows a fixed precedence: for a team member "working"
\* wins over "assigned", which wins over "available"; for a task
\* "completed" wins over "in progress" and "in_progress"; the result does
\* not depend on the order of the keywords in the value.
C36_KeywordPrecedence ==
  /\ (progResult.called /\ progResult.arg = "alice-chen.md"
        /\ teamDir.exists) =>
       progResult.value =
         MemberPrecedence(teamDir.files["alice-chen.md"].statusText)
  /\ (teamResult.called /\ teamDir.exists) =>
       teamResult.value =
         { << "alice-chen.md",
              MemberPrecedence(teamDir.files["alice-chen.md"].statusText) >> }
  /\ (taskResult.called /\ taskResult.arg = "task-001.md"
        /\ tasksDir.exists) =>
       taskResult.value =
         TaskPrecedence(tasksDir.files["task-001.md"].statusText)

\* a member's value naming all three states, "working" last, was classified
\* by get_programmer_state and by get_all_team_members
C36_Witness ==
  /\ progResult.called /\ progResult.arg = "alice-chen.md"
  /\ teamResult.called
  /\ teamDir.exists
  /\ teamDir.files["alice-chen.md"].statusText =
       JoinWords(<< << "a", "v", "a", "i", "l", "a", "b", "l", "e" >>,
                    << "A", "S", "S", "I", "G", "N", "E", "D" >>,
                    << "W", "o", "r", "k", "i", "n", "g" >> >>)
  /\ progResult.value = "WORKING"

\* ========================================================================
\* get_manager_state while other processes rewrite the documents
\* (utils/state.py lines 190-313): the call reads the task documents one
\* after the other, then the member documents
\* ========================================================================

\* modifications of documents considered in one run
MaxWrites == 2

PollTaskTexts == { << "C", "O", "M", "P", "L", "E", "T", "E", "D" >>, << "p",
   "e", "n", "d", "i", "n", "g" >>, << "I", "n", " ", "P", "r", "o", "g",
      "r", "e", "s", "s" >> }
PollMemberTexts == { << "W", "O", "R", "K", "I", "N", "G" >>, << "a", "v",
   "a", "i", "l", "a", "b", "l", "e" >> }

PollDoc(text) ==
  [present |-> TRUE, readable |-> TRUE, hasStatus |-> TRUE,
   statusText |-> text]

\* the documents of the planning directory: two tasks, one programmer
PollTasks == { FileNames[1], FileNames[2] }
PollMembers == { "alice-chen.md" }

\* get_manager_state deciding ASSIGNING from the pending tasks alone
manager_state_of_IgnoresTeam(tasks, available_programmers) ==
  IF tasks = { } THEN "INITIAL"
  ELSE IF \A t \in tasks : t[2] = "COMPLETED" THEN "COMPLETED"
  ELSE IF \E t \in tasks : t[2] = "PENDING" THEN "ASSIGNING"
  ELSE "MONITORING"

\* lines 291-313: the decision of get_manager_state from the tasks read and
\* the available programmers read
manager_state_of(tasks, available_programmers) ==
  IF tasks = { } THEN "INITIAL"
  ELSE IF \A t \in tasks : t[2] = "COMPLETED" THEN "COMPLETED"
  ELSE IF (\E t \in tasks : t[2] = "PENDING") /\ available_programmers # { }
  THEN "ASSIGNING"
  ELSE "MONITORING"

NoPoll ==
  [pc |-> "idle", listing |-> { }, tasks |-> { }, read |-> { },
   members |-> { }, result |-> "none", held |-> { }, writes |-> 0,
   during |-> 0,
   taskHeld |-> [n \in PollTasks |-> { }],
   memberHeld |-> [n \in PollMembers |-> { }]]

InitPoll ==
  /\ RunIdle
  /\ mgrResult = "none"
  /\ InferIdle
  /\ StatusIdle
  /\ SessionIdle
  /\ pathCall = << >>
  /\ fieldCall = << >>
  /\ stores = << >>
  /\ saver = << >>
  /\ worker = << >>
  /\ poll = NoPoll
  /\ \E t \in [PollTasks -> PollTaskTexts] :
       tasksDir = [exists |-> TRUE,
                   files |-> [n \in TaskNames |->
                                IF n \in PollTasks THEN PollDoc(t[n])
                                ELSE AbsentFile]]
  /\ \E m \in [PollMembers -> PollMemberTexts] :
       teamDir = [exists |-> TRUE,
                  files |-> [n \in MemberNames |->
                               IF n \in PollMembers THEN PollDoc(m[n])
                               ELSE AbsentFile]]

PollFrame ==
  UNCHANGED << runVars, histVars, mgrResult, inferVars, statusVars,
               sessionVars, pathCall, fieldCall, stores, saver, worker >>

PollRunning == poll.pc \in { "tasks", "team" }

\* what the history of the call records after the documents became td, md
Recorded(td, md) ==
  [poll EXCEPT
     !.writes = @ + 1,
     !.during = IF PollRunning THEN @ + 1 ELSE @,
     !.held = IF PollRunning
              THEN @ \cup { get_manager_state(td, md) } ELSE @,
     !.taskHeld = [n \in PollTasks |->
                     IF PollRunning
                     THEN @[n] \cup { get_task_state(td, n) } ELSE @[n]],
     !.memberHeld = [n \in PollMembers |->
                       IF PollRunning
                       THEN @[n] \cup { member_state(md.files[n]) }
                       ELSE @[n]]]

\* another process rewrites the Status of a task document
WriteTask(n, text) ==
  /\ poll.writes < MaxWrites
  /\ tasksDir.files[n].statusText # text
  /\ tasksDir' = [tasksDir EXCEPT !.files[n] = PollDoc(text)]
  /\ poll' = Recorded([tasksDir EXCEPT !.files[n] = PollDoc(text)], teamDir)
  /\ UNCHANGED teamDir
  /\ PollFrame

\* another process rewrites the Status of a member document
WriteMember(n, text) ==
  /\ poll.writes < MaxWrites
  /\ teamDir.files[n].statusText # text
  /\ teamDir' = [teamDir EXCEPT !.files[n] = PollDoc(text)]
  /\ poll' = Recorded(tasksDir, [teamDir EXCEPT !.files[n] = PollDoc(text)])
  /\ UNCHANGED tasksDir
  /\ PollFrame

\* lines 199-203: get_manager_state is called; get_all_tasks lists the
\* task documents
PollStart ==
  /\ poll.pc = "idle"
  /\ poll' =
       [poll EXCEPT
          !.pc = "tasks",
          !.listing = { n \in Glob(tasksDir) : LowerName(n) # "template.md" },
          !.held = { get_manager_state(tasksDir, teamDir) },
          !.taskHeld = [n \in PollTasks |-> { get_task_state(tasksDir, n) }],
          !.memberHeld = [n \in PollMembers |->
                            { member_state(teamDir.files[n]) }]]
  /\ UNCHANGED << tasksDir, teamDir >>
  /\ PollFrame

\* lines 204-209: the next task document of the listing is read
PollReadTask(n) ==
  /\ poll.pc = "tasks"
  /\ n \in poll.listing \ poll.read
  /\ poll' = [poll EXCEPT
                !.read = @ \cup { n },
                !.tasks = @ \cup { << n, get_task_state(tasksDir, n) >> }]
  /\ UNCHANGED << tasksDir, teamDir >>
  /\ PollFrame

\* lines 291-302, 228: all tasks are read; INITIAL and COMPLETED are
\* returned at once, otherwise get_all_team_members lists the member
\* documents
PollTasksRead ==
  /\ poll.pc = "tasks"
  /\ poll.listing = poll.read
  /\ IF poll.tasks = { } \/ \A t \in poll.tasks : t[2] = "COMPLETED"
     THEN poll' = [poll EXCEPT
                     !.pc = "done",
                     !.result = manager_state_of(poll.tasks, { })]
     ELSE poll' = [poll EXCEPT
                     !.pc = "team",
                     !.read = { },
                     !.listing = { n \in Glob(teamDir) :
                                     LowerName(n) # "template.md" }]
  /\ UNCHANGED << tasksDir, teamDir >>
  /\ PollFrame

\* lines 229-250: the next member document of the listing is read
PollReadMember(n) ==
  /\ poll.pc = "team"
  /\ n \in poll.listing \ poll.read
  /\ poll' = [poll EXCEPT
                !.read = @ \cup { n },
                !.members =
                   IF teamDir.files[n].readable
                   THEN @ \cup { << n, member_state(teamDir.files[n]) >> }
                   ELSE @]
  /\ UNCHANGED << tasksDir, teamDir >>
  /\ PollFrame

\* lines 264-265, 304-313: all members are read; the state is returned
PollReturn ==
  /\ poll.pc = "team"
  /\ poll.listing = poll.read
  /\ poll' =
       [poll EXCEPT
          !.pc = "done",
          !.result =
             manager_state_of(
               poll.tasks,
               { m[1] : m \in { x \in poll.members : x[2] = "AVAILABLE" } })]
  /\ UNCHANGED << tasksDir, teamDir >>
  /\ PollFrame

NextPoll ==
  \/ \E n \in PollTasks, text \in PollTaskTexts : WriteTask(n, text)
  \/ \E n \in PollMembers, text \in PollMemberTexts : WriteMember(n, text)
  \/ PollStart
  \/ \E n \in PollTasks : PollReadTask(n)
  \/ PollTasksRead
  \/ \E n \in PollMembers : PollReadMember(n)
  \/ PollReturn

SpecPoll == InitPoll /\ [][NextPoll]_vars

\* C35 as stated: the state returned is a ManagerState that the documents
\* had at some single instant between the start and the end of the call.
C35_Original ==
  poll.pc = "done" => poll.result \in poll.held

\* C35 (amended): the state returned is computed from one reading of each
\* document, each reading being a content the document had at some instant
\* between the start and the end of the call; the result may be out of
\* date and may be a state the documents as a whole had at no single
\* instant; when no document is modified during the call it is the
\* ManagerState the documents had during the call.
C35_ReadsEachDocumentOnce ==
  poll.pc = "done" =>
    /\ \A t \in poll.tasks : t[2] \in poll.taskHeld[t[1]]
    /\ \A m \in poll.members : m[2] \in poll.memberHeld[m[1]]
    /\ \A t1, t2 \in poll.tasks : t1[1] = t2[1] => t1 = t2
    /\ \A m1, m2 \in poll.members : m1[1] = m2[1] => m1 = m2
    /\ poll.result \in
         { manager_state_of(poll.tasks, { }),
           manager_state_of(
             poll.tasks,
             { m[1] : m \in { x \in poll.members : x[2] = "AVAILABLE" } }) }
    /\ poll.during = 0 => poll.held = { poll.result }

\* documents were modified during the call and the state returned is one
\* the documents had at no instant of the call
C35_Witness ==
  /\ poll.pc = "done"
  /\ poll.during > 0
  /\ poll.result \notin poll.held

\* ========================================================================
\* Crash recovery notice of run_manager (agents/manager.py lines 250-299)
\* and run_reviewer (agents/reviewer.py lines 221-275) over successive runs
\* of one agent on one status file; specification SpecRecovery
\* ========================================================================

\* launches of the agent considered in one behaviour
MaxRuns == 2

RecoveryAgents == { "manager", "reviewer" }

\* the status file: absent, or a record with the fields the startup reads
NoStatusFile ==
  [exists |-> FALSE, status |-> "", details |-> "", current_pr |-> 0]

StatusRecord(tag, details, current_pr) ==
  [exists |-> TRUE, status |-> tag, details |-> details,
   current_pr |-> current_pr]

\* utils/status.py lines 82-126: status and details are replaced, and
\* current_pr is kept from the file unless the call passes one (0 stands
\* for None)
updated_record(file, tag, details, current_pr) ==
  StatusRecord(tag, details,
               IF current_pr # 0 THEN current_pr
               ELSE IF file.exists THEN file.current_pr ELSE 0)

\* manager.py lines 287-299: resume_context is set for a record that does
\* not begin with "exited:" and has details
manager_resume_context(existing_status) ==
  IF existing_status.exists /\ IsTerminal(existing_status) THEN FALSE
  ELSE existing_status.exists /\ existing_status.details # ""

\* reviewer.py lines 259-275: resume_context is set for a record that does
\* not begin with "exited:" and names a pull request
reviewer_resume_context(existing_status) ==
  IF ~existing_status.exists THEN FALSE
  ELSE IF IsTerminal(existing_status) THEN FALSE
  ELSE existing_status.current_pr # 0

InitialDetails(agent) ==
  IF agent = "manager" THEN "Initializing manager agent"
  ELSE "Initializing reviewer agent"

NoWorker(agent) ==
  [agent |-> agent, pc |-> "stopped", file |-> NoStatusFile, left |-> NoStatusFile,
   resume_context |-> FALSE, sent |-> "none", runs |-> 0]

InitRecovery ==
  /\ RunIdle
  /\ mgrResult = "none"
  /\ tasksDir = NoDir(TaskNames)
  /\ teamDir = NoDir(MemberNames)
  /\ InferIdle
  /\ StatusIdle
  /\ SessionIdle
  /\ pathCall = << >>
  /\ fieldCall = << >>
  /\ stores = << >>
  /\ saver = << >>
  /\ poll = << >>
  /\ \E agent \in RecoveryAgents : worker = NoWorker(agent)

RecoveryFrame ==
  UNCHANGED << runVars, histVars, tasksDir, teamDir, mgrResult, inferVars,
               statusVars, sessionVars, pathCall, fieldCall, stores, saver,
               poll >>

\* the agent is started; left is the status file the previous run left
Launch ==
  /\ worker.pc = "stopped"
  /\ worker.runs < MaxRuns
  /\ worker' = [worker EXCEPT !.pc = "init", !.left = worker.file,
                              !.runs = @ + 1, !.resume_context = FALSE,
                              !.sent = "none"]
  /\ RecoveryFrame

\* manager.py lines 251-258, reviewer.py lines 222-229: the status file is
\* initialized
WriteStarting ==
  /\ worker.pc = "init"
  /\ worker' = [worker EXCEPT
                  !.pc = "session",
                  !.file = updated_record(worker.file, "starting",
                                          InitialDetails(worker.agent), 0)]
  /\ RecoveryFrame

\* manager.py lines 260-284, reviewer.py lines 231-255: the session is
\* resolved; --resume without a stored session ends the process
ChooseSession(resume, found) ==
  /\ worker.pc = "session"
  /\ worker' = [worker EXCEPT
                  !.pc = IF resume /\ ~found THEN "stopped" ELSE "check"]
  /\ RecoveryFrame

\* manager.py lines 286-299, reviewer.py lines 257-275: the status file is
\* read and the notice decided
CheckRecovery ==
  /\ worker.pc = "check"
  /\ worker' = [worker EXCEPT
                  !.pc = "prompt",
                  !.resume_context =
                     IF worker.agent = "manager"
                     THEN manager_resume_context(worker.file)
                     ELSE reviewer_resume_context(worker.file)]
  /\ RecoveryFrame

\* manager.py lines 310-336, reviewer.py lines 285-310: the initial prompt
\* is built and submitted
SendInitial ==
  /\ worker.pc = "prompt"
  /\ worker' = [worker EXCEPT
                  !.pc = "running",
                  !.sent = IF worker.resume_context THEN "notice"
                           ELSE "plain"]
  /\ RecoveryFrame

\* the running agent reports progress in its status file
ReportProgress(details, current_pr) ==
  /\ worker.pc = "running"
  /\ current_pr # 0 => worker.agent = "reviewer"
  /\ worker' = [worker EXCEPT
                  !.file = updated_record(worker.file, "working", details,
                                          current_pr)]
  /\ RecoveryFrame

\* the run ends and writes a terminal status
ExitRun(tag) ==
  /\ worker.pc = "running"
  /\ worker' = [worker EXCEPT
                  !.pc = "stopped",
                  !.file = updated_record(worker.file, tag, "", 0)]
  /\ RecoveryFrame

\* the process is killed; the status file stays as it is
KillRun ==
  /\ worker.pc = "running"
  /\ worker' = [worker EXCEPT !.pc = "stopped"]
  /\ RecoveryFrame

NextRecovery ==
  \/ Launch
  \/ WriteStarting
  \/ \E resume, found \in BOOLEAN : ChooseSession(resume, found)
  \/ CheckRecovery
  \/ SendInitial
  \/ \E details \in { "", "Reviewing" }, current_pr \in { 0, 7 } :
       ReportProgress(details, current_pr)
  \/ \E tag \in { "exited:success", "exited:terminated", "exited:error" } :
       ExitRun(tag)
  \/ KillRun

SpecRecovery == InitRecovery /\ [][NextRecovery]_vars

\* C34: the initial prompt of the manager and of the reviewer holds the
\* crash-recovery notice only when the status record left by the previous
\* run is non-terminal; on a first start with no status record and on a
\* start after a run that ended with a status beginning "exited:" the
\* notice is omitted.
C34_NoticeOnlyAfterCrash ==
  worker.sent = "notice" =>
    /\ worker.left.exists
    /\ ~IsTerminal(worker.left)

\* ========================================================================
\* The loop of run_programmer (agents/programmer.py lines 164-275) on a
\* member document that the agent and the manager rewrite; specification
\* SpecProgrammer
\* ========================================================================

FieldStatus == << "S", "t", "a", "t", "u", "s" >>
FieldAssignedTask == << "A", "s", "s", "i", "g", "n", "e", "d", " ", "T",
   "a", "s", "k" >>

\* member documents: not created, unreadable, and texts
TextFile(content) == [present |-> TRUE, readable |-> TRUE, content |-> content]

ProgrammerFiles ==
  { [present |-> FALSE, readable |-> FALSE, content |-> << >>],
    TextFile(<< << "#", "#", " ", "S", "t", "a", "t", "u", "s" >>, << "{",
       "s", "t", "a", "t", "u", "s", "}" >> >>),
    TextFile(<< << "#", "#", " ", "S", "t", "a", "t", "u", "s" >>, << "A",
       "V", "A", "I", "L", "A", "B", "L", "E" >>, << "#", "#", " ", "A", "s",
          "s", "i", "g", "n", "e", "d", " ", "T", "a", "s", "k" >>,
                << "N", "o", "n", "e" >> >>),
    TextFile(<< << "#", "#", " ", "S", "t", "a", "t", "u", "s" >>, << "A",
       "S", "S", "I", "G", "N", "E", "D" >>, << "#", "#", " ", "A", "s", "s",
          "i", "g", "n", "e", "d", " ", "T", "a", "s", "k" >>,
                << "t", "a", "s", "k", "-", "0", "0", "1", ".", "m",
                   "d" >> >>),
    TextFile(<< << "#", "#", " ", "S", "t", "a", "t", "u", "s" >>, << "W",
       "O", "R", "K", "I", "N", "G" >>, << "#", "#", " ", "A", "s", "s", "i",
          "g", "n", "e", "d", " ", "T", "a", "s", "k" >>,
                << "t", "a", "s", "k", "-", "0", "0", "1", ".", "m",
                   "d" >> >>),
    TextFile(<< << "#", "#", " ", "S", "t", "a", "t", "u", "s" >>, << "A",
       "S", "S", "I", "G", "N", "E", "D" >> >>),
    TextFile(<< << "#", "#", " ", "S", "t", "a", "t", "u", "s" >>, << "W",
       "O", "R", "K", "I", "N", "G" >>, << "#", "#", " ", "A", "s", "s", "i",
          "g", "n", "e", "d", " ", "T", "a", "s", "k" >>,
                << "<", "!", "-", "-", " ", "h", "i", "n", "t", " ", "-",
                   "-", ">" >> >>) }

\* utils/state.py lines 105-128 on the text of the member document
programmer_state(file) ==
  IF ~file.present THEN "NOT_REGISTERED"
  ELSE IF ~file.readable THEN "NOT_REGISTERED"
  ELSE LET field == parse_field(file.content, FieldStatus) IN
    IF field.none THEN "NOT_REGISTERED"
    ELSE LET status_lower == lower(field.value) IN
      IF Contains(status_lower, kwWorking) THEN "WORKING"
      ELSE IF Contains(status_lower, kwAssigned) THEN "ASSIGNED"
      ELSE IF Contains(status_lower, kwAvailable) THEN "AVAILABLE"
      ELSE "AVAILABLE"

NoPrompt == [kind |-> "none", task |-> None]

\* programmer.py lines 179-219: the prompt for a state and an assigned task
select_prompt(state, assigned_task) ==
  IF state = "NOT_REGISTERED" THEN [kind |-> "initial", task |-> None]
  ELSE IF state = "AVAILABLE" THEN [kind |-> "waiting", task |-> None]
  ELSE IF state \in { "ASSIGNED", "WORKING" }
  THEN IF assigned_task.none \/ assigned_task.value = << >>
       THEN [kind |-> "waiting", task |-> None]
       ELSE [kind |-> "working", task |-> assigned_task]
  ELSE [kind |-> "initial", task |-> None]

InitProgrammer ==
  /\ RunIdle
  /\ mgrResult = "none"
  /\ tasksDir = NoDir(TaskNames)
  /\ teamDir = NoDir(MemberNames)
  /\ InferIdle
  /\ StatusIdle
  /\ SessionIdle
  /\ pathCall = << >>
  /\ fieldCall = << >>
  /\ stores = << >>
  /\ saver = << >>
  /\ poll = << >>
  /\ \E file \in ProgrammerFiles, limit \in 0..MaxIterations :
       worker = [pc |-> "loop_head", iteration |-> 0,
                 max_iterations |-> limit, file |-> file,
                 shutdown_requested |-> FALSE, query_running |-> FALSE,
                 state |-> "none", assigned_task |-> None,
                 task_file |-> file, prompt |-> NoPrompt,
                 new_state |-> "none", slept |-> FALSE, turns |-> 0]

\* the agent during its turn, or the manager at any time, rewrites the
\* member document
RewriteMember(file) ==
  /\ worker.pc # "done"
  /\ worker.file # file
  /\ worker' = [worker EXCEPT !.file = file]
  /\ RecoveryFrame

\* lines 167-173: the loop test, the count and the shutdown check
ProgrammerLoopHead ==
  /\ worker.pc = "loop_head"
  /\ IF worker.iteration < worker.max_iterations
     THEN worker' =
            [worker EXCEPT
               !.iteration = @ + 1,
               !.pc = IF worker.shutdown_requested THEN "done"
                      ELSE "read_state",
               !.state = "none", !.assigned_task = None,
               !.prompt = NoPrompt, !.new_state = "none",
               !.slept = FALSE]
     ELSE worker' = [worker EXCEPT !.pc = "done"]
  /\ RecoveryFrame

\* line 176
ReadState ==
  /\ worker.pc = "read_state"
  /\ worker' = [worker EXCEPT !.pc = "read_task",
                              !.state = programmer_state(worker.file)]
  /\ RecoveryFrame

\* line 177
ReadAssignedTask ==
  /\ worker.pc = "read_task"
  /\ worker' = [worker EXCEPT
                  !.pc = "select",
                  !.task_file = worker.file,
                  !.assigned_task = get_assigned_task(worker.file)]
  /\ RecoveryFrame

\* lines 179-230: the prompt is selected and the query started
SelectPrompt ==
  /\ worker.pc = "select"
  /\ worker' = [worker EXCEPT
                  !.pc = "query",
                  !.query_running = TRUE,
                  !.prompt = select_prompt(worker.state,
                                           worker.assigned_task)]
  /\ RecoveryFrame

\* lines 231-246: the turn is streamed to its end
QueryEnd ==
  /\ worker.pc = "query"
  /\ worker' = [worker EXCEPT !.pc = "after_query",
                              !.query_running = FALSE,
                              !.turns = @ + 1]
  /\ RecoveryFrame

\* lines 248-251
CheckShutdown ==
  /\ worker.pc = "after_query"
  /\ worker' = [worker EXCEPT
                  !.pc = IF worker.shutdown_requested THEN "done"
                         ELSE "read_new"]
  /\ RecoveryFrame

\* lines 253-265: the state is read again; AVAILABLE sleeps
ReadNewState ==
  /\ worker.pc = "read_new"
  /\ LET new_state == programmer_state(worker.file) IN
       worker' = [worker EXCEPT
                    !.new_state = new_state,
                    !.pc = IF new_state = "AVAILABLE" THEN "sleep"
                           ELSE "loop_head"]
  /\ RecoveryFrame

\* line 262: the poll interval has passed
PollSleepDone ==
  /\ worker.pc = "sleep"
  /\ worker' = [worker EXCEPT !.pc = "loop_head", !.slept = TRUE]
  /\ RecoveryFrame

\* lines 91-102: the first SIGINT; during a query it sets the flag, at any
\* other place GracefulExit ends the loop (line 267)
Interrupt ==
  /\ worker.pc # "done"
  /\ ~worker.shutdown_requested
  /\ worker' = [worker EXCEPT
                  !.shutdown_requested = TRUE,
                  !.query_running = FALSE,
                  !.pc = IF worker.query_running THEN @ ELSE "done"]
  /\ RecoveryFrame

NextProgrammer ==
  \/ \E file \in ProgrammerFiles : RewriteMember(file)
  \/ ProgrammerLoopHead
  \/ ReadState
  \/ ReadAssignedTask
  \/ SelectPrompt
  \/ QueryEnd
  \/ CheckShutdown
  \/ ReadNewState
  \/ PollSleepDone
  \/ Interrupt

SpecProgrammer == InitProgrammer /\ [][NextProgrammer]_vars

\* the assigned task recorded in a member document
RecordedTask(file) ==
  IF ~file.present \/ ~file.readable THEN None
  ELSE LET task == FieldOf(file.content, FieldAssignedTask) IN
    IF task.none THEN None
    ELSE IF lower(task.value) \in NoTaskWords THEN None
    ELSE task

\* C38: in every iteration of the programmer loop the prompt is chosen from
\* the member state read at the start of the iteration: NOT_REGISTERED
\* gives the registration prompt, AVAILABLE the waiting prompt, ASSIGNED or
\* WORKING the working prompt for the recorded assigned task, or the
\* waiting prompt when no assigned task is recorded; and the loop sleeps
\* the poll interval only when the state read after the turn is AVAILABLE.
C38_PromptFromState ==
  /\ worker.prompt # NoPrompt =>
       LET recorded == RecordedTask(worker.task_file) IN
         /\ worker.state = "NOT_REGISTERED" => worker.prompt.kind = "initial"
         /\ worker.state = "AVAILABLE" => worker.prompt.kind = "waiting"
         /\ worker.state \in { "ASSIGNED", "WORKING" } =>
              IF recorded.none
              THEN worker.prompt.kind = "waiting"
              ELSE worker.prompt = [kind |-> "working", task |-> recorded]
  /\ worker.pc = "sleep" \/ worker.slept => worker.new_state = "AVAILABLE"

====
